---- MODULE Spec2Model ----
(***************************************************************************)
(* Grid allocation and pathfinding engine of the ASRS warehouse simulator. *)
(*                                                                         *)
(*   Rack              src/proto/asrs/core.py  (the same class is repeated *)
(*                     in src/proto/intial/asrs_complete/asrs-complete.py) *)
(*   a_star_path       src/pathfinding.py                                  *)
(*   a_star_pathfinding (parent pointers)  src/proto/intial/game.py        *)
(*   a_star_pathfinding (obstacle demo)    src/A_star.py                   *)
(*                                                                         *)
(* Python's None in a grid cell is written 0; box ids are database row ids *)
(* and start at 1.  A cell is the pair <<row, col>>.                       *)
(***************************************************************************)
EXTENDS Integers, Sequences, FiniteSets, TLC

VARIABLES
    rows,           \* Rack.rows
    cols,           \* Rack.cols
    grid,           \* Rack.grid : cell -> box id, or None
    box_locations,  \* Rack.box_locations : box id -> <<row, col, size>>
    call,           \* the latest call on the rack: operation, arguments, outcome
    pre,            \* the rack as it was when the latest call was entered
    ncalls,         \* number of rack calls made so far
    trip,           \* the rack before a place_box that the latest call, a remove_box of the same id, directly follows
    pc,             \* position of the planner: "idle", "search", "done"
    alg,            \* which planner is running
    start,          \* planner argument
    goal,           \* planner argument
    open_set,       \* the heap of the running search
    visited,        \* visited set (a_star_path, A_star.py)
    came_from,      \* parent pointers (game.py)
    g_score,        \* best known cost per cell (game.py)
    path,           \* the returned path
    cost,           \* the returned cost (a_star_path)
    model_zones,    \* MODEL_ZONES : size -> <<first row, last row>> of its zone
    origin,         \* slot search argument (origin_row, origin_col)
    model_size,     \* slot search argument: <<length, width>> of the box
    queue,          \* the deque of the breadth-first slot search
    slot,           \* the returned slot, or NoSlot
    fit,            \* the latest direct call of a footprint predicate, with its outcome
    is_animating,   \* window.is_animating
    operation_mode, \* window.operation_mode
    trolley_path,   \* window.trolley_path
    trolley_row,    \* window.trolley_row
    trolley_col,    \* window.trolley_col
    pending_box_id, \* window.pending_box_id
    pending_position, \* window.pending_position
    pending_size,   \* window.pending_size
    db_next,        \* the next AUTOINCREMENT box_id of the boxes table
    db_stored,      \* the box_ids of the rows of the boxes table with status 'stored'
    combo,          \* the box_ids listed in window.retrieve_box_combo
    request,        \* the animated request accepted last, as computed when it was accepted
    event,          \* the handler that ran last, and what it did to the rack
    boxes,          \* game.py Rack.boxes : box id -> <<length, width>>
    box_positions,  \* game.py Rack.box_positions : box id -> <<row, col>>
    next_box_id,    \* game.py Rack.next_box_id
    box_order,      \* game.py Rack.box_order
    pending_box,    \* game.py window.pending_box : <<length, width>>, or None
    retrieving_box_id,    \* game.py window.retrieving_box_id
    animation_cells,      \* game.py window.animation_cells
    animation_cell_index, \* game.py window.animation_cell_index
    placed,         \* the ids game.py's place_box has handed out so far, in order
    buttons_enabled \* game.py window: add_button and retrieve_button are enabled

rackVars == <<rows, cols, grid, box_locations>>
histVars == <<call, pre, trip, ncalls>>
planVars == <<pc, alg, start, goal, open_set, visited, came_from, g_score, path, cost>>
slotVars == <<model_zones, origin, model_size, queue, slot, fit>>
uiVars == <<is_animating, operation_mode, trolley_path, trolley_row, trolley_col,
            pending_box_id, pending_position, pending_size, db_next, db_stored, combo,
            request, event>>
gameVars == <<boxes, box_positions, next_box_id, box_order, pending_box,
              retrieving_box_id, animation_cells, animation_cell_index, placed,
              buttons_enabled>>
vars == <<rows, cols, grid, box_locations, call, pre, trip, ncalls,
          pc, alg, start, goal, open_set, visited, came_from, g_score, path, cost,
          model_zones, origin, model_size, queue, slot, fit,
          is_animating, operation_mode, trolley_path, trolley_row, trolley_col,
          pending_box_id, pending_position, pending_size, db_next, db_stored, combo, request, event,
          boxes, box_positions, next_box_id, box_order, pending_box, retrieving_box_id,
          animation_cells, animation_cell_index, placed, buttons_enabled>>

(***************************************************************************)
(* Bounds                                                                  *)
(***************************************************************************)
RackRows == 2
RackCols == 2
MaxBoxId == 2
MaxSize == 2
MaxCalls == 4
PlanRows == 2
PlanCols == 3
MaxObstacles == 3

None == 0
BoxIds == 1..MaxBoxId
Sizes == 1..MaxSize

(***************************************************************************)
(* Python list indexing: a negative index counts from the end, an index    *)
(* outside -n .. n-1 raises IndexError.                                    *)
(***************************************************************************)
PyValid(i, n) == -n <= i /\ i < n
PyIdx(i, n) == IF i < 0 THEN i + n ELSE i

Cells == (0..(rows - 1)) \X (0..(cols - 1))
EmptyGrid(nr, nc) == [x \in (0..(nr - 1)) \X (0..(nc - 1)) |-> None]
EmptyMap == [b \in {} |-> <<0, 0, 0>>]

\* The k-th cell (k = 0, 1, ...) that the nested loops
\*   for r in range(row, row + size): for c in range(col, col + size)
\* touch, as the indices the code subscripts with.
LoopCell(row, col, size, k) == <<row + (k \div size), col + (k % size)>>
CellValid(x) == PyValid(x[1], rows) /\ PyValid(x[2], cols)
CellAt(x) == <<PyIdx(x[1], rows), PyIdx(x[2], cols)>>

\* Number of loop iterations that complete before grid[r][c] raises
\* IndexError (size * size when none does).
FirstBad(row, col, size) ==
    LET bad == {k \in 0..(size * size - 1) : ~CellValid(LoopCell(row, col, size, k))}
    IN IF bad = {} THEN size * size
       ELSE CHOOSE k \in bad : \A j \in bad : k <= j

\* The grid after the first n iterations of a loop writing v.
WriteCells(g, row, col, size, n, v) ==
    [x \in DOMAIN g |->
        IF \E k \in 0..(n - 1) : CellAt(LoopCell(row, col, size, k)) = x
        THEN v ELSE g[x]]

MapPut(m, k, v) == [b \in (DOMAIN m) \cup {k} |-> IF b = k THEN v ELSE m[b]]
MapDel(m, k) == [b \in (DOMAIN m) \ {k} |-> m[b]]

(***************************************************************************)
(* Rack.place_box(box_id, row, col, size): writes the footprint cell by    *)
(* cell, then records the location.  There is no occupancy or bounds test; *)
(* a subscript out of range raises IndexError after the cells before it    *)
(* have been written, and box_locations is then not updated.               *)
(***************************************************************************)
PlaceBoxResult(g, locs, box_id, row, col, size) ==
    LET n == FirstBad(row, col, size)
    IN IF n = size * size
       THEN [grid |-> WriteCells(g, row, col, size, n, box_id),
             box_locations |-> MapPut(locs, box_id, <<row, col, size>>),
             ret |-> "None"]
       ELSE [grid |-> WriteCells(g, row, col, size, n, box_id),
             box_locations |-> locs,
             ret |-> "IndexError"]

\* remove_box without the membership test of line 79: an unknown id is
\* looked for in the grid, its cells are cleared and success is reported.
RemoveBoxResult_NoMembershipTest(g, locs, box_id) ==
    IF box_id \notin DOMAIN locs
    THEN [grid |-> [x \in DOMAIN g |-> IF g[x] = box_id THEN None ELSE g[x]],
          box_locations |-> locs, ret |-> "True"]
    ELSE LET loc == locs[box_id]
         IN [grid |-> WriteCells(g, loc[1], loc[2], loc[3], loc[3] * loc[3], None),
             box_locations |-> MapDel(locs, box_id),
             ret |-> "True"]

(***************************************************************************)
(* Rack.remove_box(box_id)                                                 *)
(***************************************************************************)
RemoveBoxResult(g, locs, box_id) ==
    IF box_id \notin DOMAIN locs
    THEN [grid |-> g, box_locations |-> locs, ret |-> "False"]
    ELSE LET loc == locs[box_id]
         IN [grid |-> WriteCells(g, loc[1], loc[2], loc[3], loc[3] * loc[3], None),
             box_locations |-> MapDel(locs, box_id),
             ret |-> "True"]

\* Rack.get_occupied_cells
get_occupied_cells(g) == Cardinality({x \in DOMAIN g : g[x] # None})

InitCall == [op |-> "init", box_id |-> 0, row |-> 0, col |-> 0, size |-> 0, ret |-> "None"]
NoTrip == [valid |-> FALSE, place |-> InitCall, grid |-> <<>>, box_locations |-> <<>>]

\* MODEL_ZONES of config.py, scaled from 30 rows and five sizes to three
\* rows and two sizes: size 1 has the first row, size 2 the two rows below.
MODEL_ZONES == (1 :> <<0, 0>>) @@ (2 :> <<1, 2>>)
NoSlot == <<>>      \* the None a slot search returns
NoFit == [fn |-> "none", row |-> 0, col |-> 0, length |-> 0, width |-> 0, ret |-> "None"]
NoRequest == [op |-> "none", box_id |-> None, position |-> NoSlot, size |-> 0,
              outbound |-> 0, inbound |-> 0]
NoEvent == [name |-> "init", rack_call |-> "none", steps_left |-> 0, at |-> <<0, 0>>]

SlotIdle ==
    /\ origin = <<0, 0>> /\ model_size = <<0, 0>> /\ queue = <<>>
    /\ slot = NoSlot /\ fit = NoFit

\* BusinessASRSMainWindow.__init__, lines 46-53, on a fresh boxes table
UiIdle ==
    /\ is_animating = FALSE /\ operation_mode = "idle" /\ trolley_path = <<>>
    /\ trolley_row = rows - 1 /\ trolley_col = 0
    /\ pending_box_id = None /\ pending_position = NoSlot /\ pending_size = None
    /\ db_next = 1 /\ db_stored = {} /\ combo = {}
    /\ request = NoRequest /\ event = NoEvent

\* game.py Rack.__init__ (50-57) and ASRSWindow.__init__ (238-265), without a saved game
GameIdle ==
    /\ boxes = EmptyMap /\ box_positions = EmptyMap /\ next_box_id = 1 /\ box_order = <<>>
    /\ pending_box = None /\ retrieving_box_id = None
    /\ animation_cells = <<>> /\ animation_cell_index = 0
    /\ placed = <<>>
    /\ buttons_enabled = TRUE

PlanIdle ==
    /\ pc = "idle" /\ alg = "none" /\ start = <<0, 0>> /\ goal = <<0, 0>>
    /\ open_set = {} /\ visited = {} /\ came_from = <<>> /\ g_score = <<>>
    /\ path = <<>> /\ cost = 0

\* Rack.__init__(rows, cols)
RackInit ==
    /\ rows = RackRows
    /\ cols = RackCols
    /\ grid = EmptyGrid(RackRows, RackCols)
    /\ box_locations = EmptyMap
    /\ call = InitCall
    /\ pre = [grid |-> grid, box_locations |-> box_locations]
    /\ trip = NoTrip
    /\ ncalls = 0
    /\ PlanIdle
    /\ model_zones = MODEL_ZONES
    /\ SlotIdle
    /\ UiIdle
    /\ GameIdle

place_box(box_id, row, col, size) ==
    LET res == PlaceBoxResult(grid, box_locations, box_id, row, col, size)
    IN /\ pc = "idle"
       /\ ncalls < MaxCalls
       /\ ncalls' = ncalls + 1
       /\ grid' = res.grid
       /\ box_locations' = res.box_locations
       /\ call' = [op |-> "place_box", box_id |-> box_id, row |-> row, col |-> col,
                   size |-> size, ret |-> res.ret]
       /\ pre' = [grid |-> grid, box_locations |-> box_locations]
       /\ trip' = NoTrip
       /\ UNCHANGED <<rows, cols>>
       /\ UNCHANGED <<planVars, slotVars, uiVars, gameVars>>

remove_box(box_id) ==
    LET res == RemoveBoxResult(grid, box_locations, box_id)
    IN /\ pc = "idle"
       /\ ncalls < MaxCalls
       /\ ncalls' = ncalls + 1
       /\ grid' = res.grid
       /\ box_locations' = res.box_locations
       /\ call' = [op |-> "remove_box", box_id |-> box_id, row |-> 0, col |-> 0,
                   size |-> 0, ret |-> res.ret]
       /\ pre' = [grid |-> grid, box_locations |-> box_locations]
       /\ trip' = IF call.op = "place_box" /\ call.box_id = box_id
                  THEN [valid |-> TRUE, place |-> call, grid |-> pre.grid,
                        box_locations |-> pre.box_locations]
                  ELSE NoTrip
       /\ UNCHANGED <<rows, cols>>
       /\ UNCHANGED <<planVars, slotVars, uiVars, gameVars>>

PlaceBox == \E b \in BoxIds, r \in 0..(rows - 1), c \in 0..(cols - 1), s \in Sizes :
                place_box(b, r, c, s)
RemoveBox == \E b \in BoxIds : remove_box(b)

RackNext == PlaceBox \/ RemoveBox
RackSpec == RackInit /\ [][RackNext]_vars


(***************************************************************************)
(* Path planners                                                           *)
(***************************************************************************)
Infinity == -1      \* float('inf'), returned as the cost of the no-path result
Abs(n) == IF n < 0 THEN -n ELSE n

\* the distance with abs() missing on the row term
calculate_distance_RowSigned(a, b) == (a[1] - b[1]) + Abs(a[2] - b[2])

\* calculate_distance(start, end): Manhattan distance
calculate_distance(a, b) == Abs(a[1] - b[1]) + Abs(a[2] - b[2])

\* Python's order on tuples and lists: the first differing element decides,
\* and a proper prefix is smaller.
CellLess(a, b) == a[1] < b[1] \/ (a[1] = b[1] /\ a[2] < b[2])
ListLess(p, q) ==
    LET n == IF Len(p) < Len(q) THEN Len(p) ELSE Len(q)
        diff == {i \in 1..n : p[i] # q[i]}
    IN IF diff = {} THEN Len(p) < Len(q)
       ELSE LET i == CHOOSE k \in diff : \A j \in diff : k <= j
            IN CellLess(p[i], q[i])
\* entries <<priority, cost, position, path>> of a_star_path and A_star.py
EntryLess(e, f) ==
    \/ e[1] < f[1]
    \/ e[1] = f[1] /\ e[2] < f[2]
    \/ e[1] = f[1] /\ e[2] = f[2] /\ CellLess(e[3], f[3])
    \/ e[1] = f[1] /\ e[2] = f[2] /\ e[3] = f[3] /\ ListLess(e[4], f[4])
\* entries <<f_score, cell>> of game.py
PairLess(e, f) == e[1] < f[1] \/ (e[1] = f[1] /\ CellLess(e[2], f[2]))

\* heapq.heappop: the smallest entry of the heap
HeapTop4(h) == CHOOSE e \in h : \A f \in h \ {e} : EntryLess(e, f)
HeapTop2(h) == CHOOSE e \in h : \A f \in h \ {e} : PairLess(e, f)

\* the neighbour loop of a_star_path skipping the occupied cells
PathNeighbors_SkipOccupied(current) ==
    {n \in {<<current[1] - 1, current[2]>>, <<current[1] + 1, current[2]>>,
            <<current[1], current[2] - 1>>, <<current[1], current[2] + 1>>} :
        /\ 0 <= n[1] /\ n[1] < rows /\ 0 <= n[2] /\ n[2] < cols
        /\ grid[n] = None}

\* The neighbour loop of a_star_path: the four moves, kept when in bounds.
\* The rack is consulted for rows and cols only.
PathNeighbors(current) ==
    {n \in {<<current[1] - 1, current[2]>>, <<current[1] + 1, current[2]>>,
            <<current[1], current[2] - 1>>, <<current[1], current[2] + 1>>} :
        0 <= n[1] /\ n[1] < rows /\ 0 <= n[2] /\ n[2] < cols}

\* game.py with a slip in the last move: (row+1, col+1) for (row, col+1)
GameNeighbors_Diagonal(current) ==
    {n \in {<<current[1] - 1, current[2]>>, <<current[1] + 1, current[2]>>,
            <<current[1], current[2] - 1>>, <<current[1] + 1, current[2] + 1>>} :
        0 <= n[1] /\ n[1] < rows /\ 0 <= n[2] /\ n[2] < cols}

\* The neighbour list of game.py's a_star_pathfinding, kept when in bounds
\* (rows = len(grid), cols = len(grid[0])); the grid's contents are not read.
GameNeighbors(current) ==
    {n \in {<<current[1] - 1, current[2]>>, <<current[1] + 1, current[2]>>,
            <<current[1], current[2] - 1>>, <<current[1], current[2] + 1>>} :
        0 <= n[1] /\ n[1] < rows /\ 0 <= n[2] /\ n[2] < cols}

\* The neighbour loop of A_star.py: in bounds, not an obstacle, not visited.
\* An obstacle 'X' of the demo grid is an occupied cell here.
DemoNeighbors(current, vis) ==
    {n \in {<<current[1] - 1, current[2]>>, <<current[1] + 1, current[2]>>,
            <<current[1], current[2] - 1>>, <<current[1], current[2] + 1>>} :
        /\ 0 <= n[1] /\ n[1] < rows /\ 0 <= n[2] /\ n[2] < cols
        /\ grid[n] = None
        /\ n \notin vis}

\* game.py, lines 182-186: walk the parent pointers back from the goal;
\* the list built is goal .. start, here already reversed.
RECURSIVE ParentChain(_, _)
ParentChain(cf, current) ==
    IF current \in DOMAIN cf
    THEN Append(ParentChain(cf, cf[current]), current)
    ELSE <<current>>

\* the reconstruction returning the whole chain, start included
ReconstructPath_KeepStart(cf, current) == ParentChain(cf, current)

\* game.py, lines 182-187: path.reverse(); return path[1:]
ReconstructPath(cf, current) == Tail(ParentChain(cf, current))

\* a grid that place_box calls of size 1 produce: the cells of obst hold
\* distinct box ids
ObstacleId(x, nc) == x[1] * nc + x[2] + 1
PlanInit ==
    /\ rows = PlanRows
    /\ cols = PlanCols
    /\ \E obst \in SUBSET ((0..(PlanRows - 1)) \X (0..(PlanCols - 1))) :
        /\ Cardinality(obst) <= MaxObstacles
        /\ grid = [x \in (0..(PlanRows - 1)) \X (0..(PlanCols - 1)) |->
                       IF x \in obst THEN ObstacleId(x, PlanCols) ELSE None]
        /\ box_locations = [b \in {ObstacleId(x, PlanCols) : x \in obst} |->
                               <<(b - 1) \div PlanCols, (b - 1) % PlanCols, 1>>]
    /\ call = InitCall
    /\ pre = [grid |-> grid, box_locations |-> box_locations]
    /\ trip = NoTrip
    /\ ncalls = 0
    /\ PlanIdle
    /\ model_zones = MODEL_ZONES
    /\ SlotIdle
    /\ UiIdle
    /\ GameIdle

\* a_star_path(start, end, rack), lines 18-20
AStarPathCall ==
    \E s \in Cells, e \in Cells :
        /\ pc = "idle"
        /\ pc' = "search"
        /\ alg' = "a_star_path"
        /\ start' = s
        /\ goal' = e
        /\ open_set' = {<<0 + calculate_distance(s, e), 0, s, <<s>>>>}
        /\ visited' = {}
        /\ UNCHANGED <<came_from, g_score, path, cost>>
        /\ UNCHANGED <<rackVars, histVars, slotVars, uiVars, gameVars>>

\* a_star_path, one pass of "while open_set:" (lines 22-41), or the return
\* of line 43 when the heap is empty
AStarPathIter ==
    /\ pc = "search"
    /\ alg = "a_star_path"
    /\ IF open_set = {}
       THEN /\ path' = <<>>
            /\ cost' = Infinity
            /\ pc' = "done"
            /\ UNCHANGED <<open_set, visited>>
       ELSE LET top == HeapTop4(open_set)
                current == top[3]
            IN IF current = goal
               THEN /\ path' = top[4]
                    /\ cost' = top[2]
                    /\ pc' = "done"
                    /\ open_set' = open_set \ {top}
                    /\ UNCHANGED visited
               ELSE IF current \in visited
               THEN /\ open_set' = open_set \ {top}
                    /\ UNCHANGED <<visited, path, cost, pc>>
               ELSE /\ visited' = visited \cup {current}
                    /\ open_set' = (open_set \ {top}) \cup
                           {<<(top[2] + 1) + calculate_distance(n, goal), top[2] + 1,
                              n, Append(top[4], n)>> : n \in PathNeighbors(current)}
                    /\ UNCHANGED <<path, cost, pc>>
    /\ UNCHANGED <<alg, start, goal, came_from, g_score>>
    /\ UNCHANGED <<rackVars, histVars, slotVars, uiVars, gameVars>>

\* game.py a_star_pathfinding(grid, start, goal), lines 169-176
GameAStarCall ==
    \E s \in Cells, e \in Cells :
        /\ pc = "idle"
        /\ pc' = "search"
        /\ alg' = "game"
        /\ start' = s
        /\ goal' = e
        /\ open_set' = {<<0, s>>}
        /\ came_from' = <<>>
        /\ g_score' = [x \in {s} |-> 0]
        /\ UNCHANGED <<visited, path, cost>>
        /\ UNCHANGED <<rackVars, histVars, slotVars, uiVars, gameVars>>

\* game.py, one pass of "while open_list:" (lines 178-208), or the return of
\* line 210.  The four neighbours are distinct cells and none is current, so
\* the updates of one pass do not depend on each other.
GameAStarIter ==
    /\ pc = "search"
    /\ alg = "game"
    /\ IF open_set = {}
       THEN /\ path' = <<>>
            /\ pc' = "done"
            /\ UNCHANGED <<open_set, came_from, g_score>>
       ELSE LET top == HeapTop2(open_set)
                current == top[2]
                tentative_g == g_score[current] + 1
                better == {n \in GameNeighbors(current) :
                              n \notin DOMAIN g_score \/ tentative_g < g_score[n]}
            IN IF current = goal
               THEN /\ path' = ReconstructPath(came_from, current)
                    /\ pc' = "done"
                    /\ open_set' = open_set \ {top}
                    /\ UNCHANGED <<came_from, g_score>>
               ELSE /\ came_from' = [x \in (DOMAIN came_from) \cup better |->
                                        IF x \in better THEN current ELSE came_from[x]]
                    /\ g_score' = [x \in (DOMAIN g_score) \cup better |->
                                      IF x \in better THEN tentative_g ELSE g_score[x]]
                    /\ open_set' = (open_set \ {top}) \cup
                           {<<tentative_g + calculate_distance(n, goal), n>> : n \in better}
                    /\ UNCHANGED <<path, pc>>
    /\ UNCHANGED <<alg, start, goal, visited, cost>>
    /\ UNCHANGED <<rackVars, histVars, slotVars, uiVars, gameVars>>

\* A_star.py a_star_pathfinding(grid, start, goal), lines 23-28
DemoAStarCall ==
    \E s \in Cells, e \in Cells :
        /\ pc = "idle"
        /\ pc' = "search"
        /\ alg' = "demo"
        /\ start' = s
        /\ goal' = e
        /\ open_set' = {<<0, 0, s, <<s>>>>}
        /\ visited' = {}
        /\ UNCHANGED <<came_from, g_score, path, cost>>
        /\ UNCHANGED <<rackVars, histVars, slotVars, uiVars, gameVars>>

\* A_star.py, one pass of "while open_set:" (lines 36-89), or the return of
\* line 94; the None it returns is written as the empty sequence (a path
\* that is found holds at least the start cell).
DemoAStarIter ==
    /\ pc = "search"
    /\ alg = "demo"
    /\ IF open_set = {}
       THEN /\ path' = <<>>
            /\ pc' = "done"
            /\ UNCHANGED <<open_set, visited>>
       ELSE LET top == HeapTop4(open_set)
                current == top[3]
            IN IF current \in visited
               THEN /\ open_set' = open_set \ {top}
                    /\ UNCHANGED <<visited, path, pc>>
               ELSE IF current = goal
               THEN /\ visited' = visited \cup {current}
                    /\ path' = top[4]
                    /\ pc' = "done"
                    /\ open_set' = open_set \ {top}
               ELSE /\ visited' = visited \cup {current}
                    /\ open_set' = (open_set \ {top}) \cup
                           {<<(top[2] + 1) + calculate_distance(n, goal), top[2] + 1,
                              n, Append(top[4], n)>> :
                                n \in DemoNeighbors(current, visited \cup {current})}
                    /\ UNCHANGED <<path, pc>>
    /\ UNCHANGED <<alg, start, goal, came_from, g_score, cost>>
    /\ UNCHANGED <<rackVars, histVars, slotVars, uiVars, gameVars>>

PlanNext ==
    \/ AStarPathCall
    \/ AStarPathIter
    \/ GameAStarCall
    \/ GameAStarIter
    \/ DemoAStarCall
    \/ DemoAStarIter
PlanSpec == PlanInit /\ [][PlanNext]_vars

(***************************************************************************)
(* Footprint predicates and slot allocators                                *)
(***************************************************************************)
SlotRows == 3
SlotCols == 3
MaxSlotBoxes == 2

\* The k-th cell of the loops  for r in range(row, row + h): for c in
\* range(col, col + w)
RectCell(row, col, h, w, k) == <<row + (k \div w), col + (k % w)>>

\* the scan that subscripts every cell of the footprint and never finds one
\* occupied
ScanFree_IgnoresOccupancy(g, row, col, h, w) ==
    LET idx == 0..(h * w - 1)
        stop == {k \in idx : ~CellValid(RectCell(row, col, h, w, k))}
    IN IF stop = {} THEN "True" ELSE "IndexError"

\* The scan "if self.grid[r][c] is not None: return False" over an h x w
\* footprint: False at the first occupied cell, IndexError when a subscript
\* is out of range before that, True when the loops run to their end.
ScanFree(g, row, col, h, w) ==
    LET idx == 0..(h * w - 1)
        stop == {k \in idx :
                    \/ ~CellValid(RectCell(row, col, h, w, k))
                    \/ g[CellAt(RectCell(row, col, h, w, k))] # None}
    IN IF stop = {} THEN "True"
       ELSE LET k == CHOOSE i \in stop : \A j \in stop : i <= j
            IN IF CellValid(RectCell(row, col, h, w, k)) THEN "False" ELSE "IndexError"

\* Rack._can_fit(row, col, size) of asrs-complete.py
CanFitResult(g, row, col, size) ==
    IF row + size > rows \/ col + size > cols THEN "False"
    ELSE ScanFree(g, row, col, size, size)

\* Rack.can_place_box(box, start_row, start_col) of game.py: the box covers
\* box.width rows and box.length columns
CanPlaceBoxResult(g, length, width, start_row, start_col) ==
    IF start_row + width > rows \/ start_col + length > cols THEN "False"
    ELSE ScanFree(g, start_row, start_col, width, length)

\* the range test with the last row of the zone left out
InZone_Exclusive(zone, r) == zone[1] <= r /\ r < zone[2]

\* zone['range'][0] <= r_check <= zone['range'][1]
InZone(zone, r) == zone[1] <= r /\ r <= zone[2]

\* the predicate of core.py with the zone test of lines 51-61 left out
ZoneCanFitResult_NoZoneTest(g, zones, row, col, size) ==
    IF row + size > rows \/ col + size > cols THEN "False"
    ELSE ScanFree(g, row, col, size, size)

\* Rack._can_fit(row, col, size) of core.py, with the zone test of lines
\* 51-61 between the bounds test and the occupancy scan.  MODEL_ZONES[size]
\* is evaluated, and raises KeyError for a size without a zone, only for a
\* row that lies in some zone.
ZoneCanFitResult(g, zones, row, col, size) ==
    IF row + size > rows \/ col + size > cols THEN "False"
    ELSE LET span == row..(row + size - 1)
             in_some == [r \in span |-> \E z \in DOMAIN zones : InZone(zones[z], r)]
             found == [r \in span |->
                         /\ in_some[r]
                         /\ size \in DOMAIN zones
                         /\ InZone(zones[size], r)]
             stop == {r \in span : ~found[r]}
         IN IF stop = {} THEN ScanFree(g, row, col, size, size)
            ELSE LET r == CHOOSE i \in stop : \A j \in stop : i <= j
                 IN IF in_some[r] /\ size \notin DOMAIN zones THEN "KeyError"
                    ELSE "False"

\* the smallest cell in scan order (rows first, then columns) of a set
FirstInScan(S) == CHOOSE x \in S : \A y \in S \ {x} : CellLess(x, y)

\* the scan started at the origin's row instead of the zone's first row
ZoneSlotResult_FromOriginRow(g, zones, size, origin_row, origin_col) ==
    IF size \notin DOMAIN zones THEN NoSlot
    ELSE LET fits == {x \in (origin_row..zones[size][2]) \X (0..(cols - 1)) :
                         ZoneCanFitResult(g, zones, x[1], x[2], size) = "True"}
         IN IF fits = {} THEN NoSlot ELSE FirstInScan(fits)

\* Rack.find_nearest_empty_slot(model_size, origin_row, origin_col) of
\* core.py: the first anchor of the zone, row by row and left to right, at
\* which _can_fit holds.  The origin is not read.
ZoneSlotResult(g, zones, size, origin_row, origin_col) ==
    IF size \notin DOMAIN zones THEN NoSlot
    ELSE LET fits == {x \in (zones[size][1]..zones[size][2]) \X (0..(cols - 1)) :
                         ZoneCanFitResult(g, zones, x[1], x[2], size) = "True"}
         IN IF fits = {} THEN NoSlot ELSE FirstInScan(fits)

\* the moves without the one to the row above
BfsPushes_NoUp(row, col, dist) ==
    LET moves == <<<<row + 1, col>>, <<row, col - 1>>, <<row, col + 1>>>>
        ok(n) == 0 <= n[1] /\ n[1] < rows /\ 0 <= n[2] /\ n[2] < cols
        take(i) == IF ok(moves[i]) THEN <<<<moves[i][1], moves[i][2], dist + 1>>>> ELSE <<>>
    IN take(1) \o take(2) \o take(3)

\* the four moves of the breadth-first slot search with the order of
\* asrs-complete.py, kept when in bounds, as queue entries
BfsPushes(row, col, dist) ==
    LET moves == <<<<row - 1, col>>, <<row + 1, col>>, <<row, col - 1>>, <<row, col + 1>>>>
        ok(n) == 0 <= n[1] /\ n[1] < rows /\ 0 <= n[2] /\ n[2] < cols
        take(i) == IF ok(moves[i]) THEN <<<<moves[i][1], moves[i][2], dist + 1>>>> ELSE <<>>
    IN take(1) \o take(2) \o take(3) \o take(4)

\* the search with a stack in place of the queue: new entries go to the front
BfsSlotIter_Stack(g, size, st) ==
    IF st.queue = <<>>
    THEN [st EXCEPT !.done = TRUE, !.slot = NoSlot]
    ELSE LET h == Head(st.queue)
             cell == <<h[1], h[2]>>
         IN IF cell \in st.visited
            THEN [st EXCEPT !.queue = Tail(st.queue)]
            ELSE IF CanFitResult(g, h[1], h[2], size) = "True"
            THEN [queue |-> Tail(st.queue), visited |-> st.visited \cup {cell},
                  done |-> TRUE, slot |-> cell]
            ELSE [queue |-> BfsPushes(h[1], h[2], h[3]) \o Tail(st.queue),
                  visited |-> st.visited \cup {cell},
                  done |-> FALSE, slot |-> NoSlot]

\* Rack.find_nearest_empty_slot of asrs-complete.py, one pass of
\* "while queue:" (lines 252-267), or the return of line 269
BfsSlotIter(g, size, st) ==
    IF st.queue = <<>>
    THEN [st EXCEPT !.done = TRUE, !.slot = NoSlot]
    ELSE LET h == Head(st.queue)
             cell == <<h[1], h[2]>>
         IN IF cell \in st.visited
            THEN [st EXCEPT !.queue = Tail(st.queue)]
            ELSE IF CanFitResult(g, h[1], h[2], size) = "True"
            THEN [queue |-> Tail(st.queue), visited |-> st.visited \cup {cell},
                  done |-> TRUE, slot |-> cell]
            ELSE [queue |-> Tail(st.queue) \o BfsPushes(h[1], h[2], h[3]),
                  visited |-> st.visited \cup {cell},
                  done |-> FALSE, slot |-> NoSlot]

BfsSlotStart(origin_row, origin_col) ==
    [queue |-> <<<<origin_row, origin_col, 0>>>>, visited |-> {},
     done |-> FALSE, slot |-> NoSlot]

\* the whole call, for the handlers that make it
RECURSIVE BfsSlotRun(_, _, _)
BfsSlotRun(g, size, st) ==
    IF st.done THEN st.slot ELSE BfsSlotRun(g, size, BfsSlotIter(g, size, st))
BfsSlotResult(g, size, origin_row, origin_col) ==
    BfsSlotRun(g, size, BfsSlotStart(origin_row, origin_col))

\* the scan with "distance <= min_distance": the last anchor in scan order
\* among those at the least distance
ClosestResult_LastOfTies(g, length, width, origin_row, origin_col) ==
    LET d2(x) == (x[1] - origin_row) * (x[1] - origin_row)
                     + (x[2] - origin_col) * (x[2] - origin_col)
        fits == {x \in (0..(rows - width)) \X (0..(cols - length)) :
                    CanPlaceBoxResult(g, length, width, x[1], x[2]) = "True"}
        best == {x \in fits : \A y \in fits : d2(x) <= d2(y)}
    IN IF fits = {} THEN NoSlot
       ELSE CHOOSE x \in best : \A y \in best \ {x} : CellLess(y, x)

\* Rack.find_closest_available_location(box, origin_row, origin_col) of
\* game.py: "distance < min_distance" keeps the first anchor in scan order
\* among those at the least distance; sqrt is monotone, the squares are
\* compared here.
ClosestResult(g, length, width, origin_row, origin_col) ==
    LET d2(x) == (x[1] - origin_row) * (x[1] - origin_row)
                     + (x[2] - origin_col) * (x[2] - origin_col)
        fits == {x \in (0..(rows - width)) \X (0..(cols - length)) :
                    CanPlaceBoxResult(g, length, width, x[1], x[2]) = "True"}
        best == {x \in fits : \A y \in fits : d2(x) <= d2(y)}
    IN IF fits = {} THEN NoSlot ELSE FirstInScan(best)

\* the zone tables the slot searches are run with: the configured one, one
\* with overlapping zones whose zone for size 2 ends above the last row, one
\* without a zone for size 2, one whose zone for size 2 is a single row and
\* that leaves a row outside every zone
ZoneTables ==
    { MODEL_ZONES,
      (1 :> <<1, 2>>) @@ (2 :> <<0, 1>>),
      (1 :> <<1, 2>>),
      (1 :> <<0, 0>>) @@ (2 :> <<2, 2>>) }

\* a rack that place_box calls of size 1 produce, under each zone table
SlotInit ==
    /\ rows = SlotRows
    /\ cols = SlotCols
    /\ \E obst \in SUBSET ((0..(SlotRows - 1)) \X (0..(SlotCols - 1))) :
        /\ Cardinality(obst) <= MaxSlotBoxes
        /\ grid = [x \in (0..(SlotRows - 1)) \X (0..(SlotCols - 1)) |->
                       IF x \in obst THEN ObstacleId(x, SlotCols) ELSE None]
        /\ box_locations = [b \in {ObstacleId(x, SlotCols) : x \in obst} |->
                               <<(b - 1) \div SlotCols, (b - 1) % SlotCols, 1>>]
    /\ call = InitCall
    /\ pre = [grid |-> grid, box_locations |-> box_locations]
    /\ trip = NoTrip
    /\ ncalls = 0
    /\ PlanIdle
    /\ model_zones \in ZoneTables
    /\ SlotIdle
    /\ UiIdle
    /\ GameIdle

\* find_nearest_empty_slot of asrs-complete.py, lines 248-249
BfsSlotCall ==
    \E o \in Cells, size \in Sizes :
        /\ pc = "idle"
        /\ pc' = "search"
        /\ alg' = "bfs_slot"
        /\ origin' = o
        /\ model_size' = <<size, size>>
        /\ queue' = BfsSlotStart(o[1], o[2]).queue
        /\ visited' = {}
        /\ UNCHANGED <<start, goal, open_set, came_from, g_score, path, cost>>
        /\ UNCHANGED <<model_zones, slot, fit>>
        /\ UNCHANGED <<rackVars, histVars, uiVars, gameVars>>

\* the step of the slot search that goes on polling an empty queue instead
\* of returning
BfsSlotStep_NeverReturns ==
    /\ pc = "search"
    /\ alg = "bfs_slot"
    /\ LET st == BfsSlotIter(grid, model_size[1],
                             [queue |-> queue, visited |-> visited,
                              done |-> FALSE, slot |-> NoSlot])
       IN /\ queue' = st.queue
          /\ visited' = st.visited
          /\ slot' = st.slot
          /\ pc' = IF st.done /\ st.slot # NoSlot THEN "done" ELSE "search"
    /\ UNCHANGED <<alg, start, goal, open_set, came_from, g_score, path, cost>>
    /\ UNCHANGED <<model_zones, origin, model_size, fit>>
    /\ UNCHANGED <<rackVars, histVars, uiVars, gameVars>>

BfsSlotStep ==
    /\ pc = "search"
    /\ alg = "bfs_slot"
    /\ LET st == BfsSlotIter(grid, model_size[1],
                             [queue |-> queue, visited |-> visited,
                              done |-> FALSE, slot |-> NoSlot])
       IN /\ queue' = st.queue
          /\ visited' = st.visited
          /\ slot' = st.slot
          /\ pc' = IF st.done THEN "done" ELSE "search"
    /\ UNCHANGED <<alg, start, goal, open_set, came_from, g_score, path, cost>>
    /\ UNCHANGED <<model_zones, origin, model_size, fit>>
    /\ UNCHANGED <<rackVars, histVars, uiVars, gameVars>>

\* the zone scan writing the size asked for into the anchor cell it returns
ZoneSlotCall_ClaimsSlot ==
    \E o \in Cells, size \in 1..(MaxSize + 1) :
        LET found == ZoneSlotResult(grid, model_zones, size, o[1], o[2])
        IN /\ pc = "idle"
           /\ pc' = "done"
           /\ alg' = "zone_slot"
           /\ origin' = o
           /\ model_size' = <<size, size>>
           /\ slot' = found
           /\ grid' = IF found = NoSlot THEN grid ELSE [grid EXCEPT ![found] = size]
           /\ UNCHANGED <<rows, cols, box_locations>>
           /\ UNCHANGED <<start, goal, open_set, visited, came_from, g_score, path, cost>>
           /\ UNCHANGED <<model_zones, queue, fit>>
           /\ UNCHANGED <<histVars, uiVars, gameVars>>

\* find_nearest_empty_slot of core.py, the whole call
ZoneSlotCall ==
    \E o \in Cells, size \in 1..(MaxSize + 1) :
        /\ pc = "idle"
        /\ pc' = "done"
        /\ alg' = "zone_slot"
        /\ origin' = o
        /\ model_size' = <<size, size>>
        /\ slot' = ZoneSlotResult(grid, model_zones, size, o[1], o[2])
        /\ UNCHANGED <<start, goal, open_set, visited, came_from, g_score, path, cost>>
        /\ UNCHANGED <<model_zones, queue, fit>>
        /\ UNCHANGED <<rackVars, histVars, uiVars, gameVars>>

\* find_closest_available_location of game.py, the whole call
ClosestCall ==
    \E o \in Cells, length \in Sizes, width \in Sizes :
        /\ pc = "idle"
        /\ pc' = "done"
        /\ alg' = "closest"
        /\ origin' = o
        /\ model_size' = <<length, width>>
        /\ slot' = ClosestResult(grid, length, width, o[1], o[2])
        /\ UNCHANGED <<start, goal, open_set, visited, came_from, g_score, path, cost>>
        /\ UNCHANGED <<model_zones, queue, fit>>
        /\ UNCHANGED <<rackVars, histVars, uiVars, gameVars>>

\* a direct call of _can_fit (asrs-complete.py) with any integer anchor
\* from one step before the grid to one step after it on a full wrap
CanFitCall ==
    \E row \in (-(rows + 1))..rows, col \in (-(cols + 1))..cols, size \in Sizes :
        /\ pc = "idle"
        /\ pc' = "done"
        /\ alg' = "_can_fit"
        /\ fit' = [fn |-> "_can_fit", row |-> row, col |-> col, length |-> size,
                   width |-> size, ret |-> CanFitResult(grid, row, col, size)]
        /\ UNCHANGED <<start, goal, open_set, visited, came_from, g_score, path, cost>>
        /\ UNCHANGED <<model_zones, origin, model_size, queue, slot>>
        /\ UNCHANGED <<rackVars, histVars, uiVars, gameVars>>

\* a direct call of can_place_box (game.py) with any integer anchor
CanPlaceBoxCall ==
    \E row \in (-(rows + 1))..rows, col \in (-(cols + 1))..cols,
       length \in Sizes, width \in Sizes :
        /\ pc = "idle"
        /\ pc' = "done"
        /\ alg' = "can_place_box"
        /\ fit' = [fn |-> "can_place_box", row |-> row, col |-> col, length |-> length,
                   width |-> width,
                   ret |-> CanPlaceBoxResult(grid, length, width, row, col)]
        /\ UNCHANGED <<start, goal, open_set, visited, came_from, g_score, path, cost>>
        /\ UNCHANGED <<model_zones, origin, model_size, queue, slot>>
        /\ UNCHANGED <<rackVars, histVars, uiVars, gameVars>>

SlotNext ==
    \/ BfsSlotCall
    \/ BfsSlotStep
    \/ ZoneSlotCall
    \/ ClosestCall
    \/ CanFitCall
    \/ CanPlaceBoxCall
SlotSpec == SlotInit /\ [][SlotNext]_vars

\* the path planners and the slot allocators called on the same rack
EngineNext == PlanNext \/ SlotNext
EngineSpec == PlanInit /\ [][EngineNext]_vars

\* a direct call of _can_fit of core.py with any row from one step before
\* the grid to one step after it on a full wrap, any column of the grid and
\* any size, with or without a zone
ZoneCanFitCall ==
    \E row \in (-(rows + 1))..rows, col \in 0..(cols - 1), size \in 1..(MaxSize + 1) :
        /\ pc = "idle"
        /\ pc' = "done"
        /\ alg' = "zone_can_fit"
        /\ fit' = [fn |-> "zone_can_fit", row |-> row, col |-> col, length |-> size,
                   width |-> size,
                   ret |-> ZoneCanFitResult(grid, model_zones, row, col, size)]
        /\ UNCHANGED <<start, goal, open_set, visited, came_from, g_score, path, cost>>
        /\ UNCHANGED <<model_zones, origin, model_size, queue, slot>>
        /\ UNCHANGED <<rackVars, histVars, uiVars, gameVars>>

ZoneFitNext == ZoneCanFitCall
ZoneFitSpec == SlotInit /\ [][ZoneFitNext]_vars

\* The searches that loop on a queue.  A call runs on the calling thread
\* until it returns: a loop that can make another pass makes it.
SearchNext ==
    \/ PlanNext
    \/ BfsSlotCall
    \/ BfsSlotStep
SearchFairSpec ==
    /\ PlanInit
    /\ [][SearchNext]_vars
    /\ WF_vars(AStarPathIter)
    /\ WF_vars(GameAStarIter)
    /\ WF_vars(DemoAStarIter)
    /\ WF_vars(BfsSlotStep)

\* calculate_distance (pathfinding.py, and heuristic of A_star.py and
\* game.py, which are the same expression) called on two coordinate pairs:
\* any integers, the function does not look at a rack
MaxCoord == 2
DistInit ==
    /\ rows = PlanRows
    /\ cols = PlanCols
    /\ grid = EmptyGrid(PlanRows, PlanCols)
    /\ box_locations = EmptyMap
    /\ call = InitCall
    /\ pre = [grid |-> grid, box_locations |-> box_locations]
    /\ trip = NoTrip
    /\ ncalls = 0
    /\ pc = "idle" /\ alg = "none"
    /\ start \in ((-MaxCoord)..MaxCoord) \X ((-MaxCoord)..MaxCoord)
    /\ goal \in ((-MaxCoord)..MaxCoord) \X ((-MaxCoord)..MaxCoord)
    /\ open_set = {} /\ visited = {} /\ came_from = <<>> /\ g_score = <<>>
    /\ path = <<>> /\ cost = 0
    /\ model_zones = MODEL_ZONES
    /\ SlotIdle
    /\ UiIdle
    /\ GameIdle

\* cost holds calculate_distance(start, goal), g_score the value for the
\* arguments swapped
DistanceCall ==
    /\ pc = "idle"
    /\ pc' = "done"
    /\ alg' = "calculate_distance"
    /\ cost' = calculate_distance(start, goal)
    /\ g_score' = <<calculate_distance(goal, start), calculate_distance(start, start)>>
    /\ UNCHANGED <<start, goal, open_set, visited, came_from, path>>
    /\ UNCHANGED <<rackVars, histVars, slotVars, uiVars, gameVars>>

DistNext == DistanceCall
DistSpec == DistInit /\ [][DistNext]_vars

(***************************************************************************)
(* The store and retrieve workflows of the windows                         *)
(***************************************************************************)
UiRows == 3
UiCols == 2
ORIGIN_ROW == rows - 1
ORIGIN_COL == 0

\* a_star_path as one call: the loop run until it returns, the path kept
\* and the cost dropped as its callers do ("path, _ = a_star_path(...)")
RECURSIVE AStarPathRun(_, _, _)
AStarPathRun(end, open, vis) ==
    IF open = {} THEN <<>>
    ELSE LET top == HeapTop4(open)
             current == top[3]
         IN IF current = end THEN top[4]
            ELSE IF current \in vis THEN AStarPathRun(end, open \ {top}, vis)
            ELSE AStarPathRun(end,
                     (open \ {top}) \cup
                         {<<(top[2] + 1) + calculate_distance(n, end), top[2] + 1,
                            n, Append(top[4], n)>> : n \in PathNeighbors(current)},
                     vis \cup {current})
AStarPathResult(s, e) == AStarPathRun(e, {<<0 + calculate_distance(s, e), 0, s, <<s>>>>}, {})

\* what a handler leaves alone besides the rack and the window
UiFrame == UNCHANGED <<rows, cols>> /\ UNCHANGED <<histVars, planVars, slotVars, gameVars>>
Event(name, rack_call) ==
    [name |-> name, rack_call |-> rack_call, steps_left |-> Len(trolley_path),
     at |-> <<trolley_row, trolley_col>>]

\* BusinessASRSMainWindow.__init__ on an empty database and without a save
\* file: an empty rack, the trolley at the origin, nothing pending
UiInit ==
    /\ rows = UiRows
    /\ cols = UiCols
    /\ grid = EmptyGrid(UiRows, UiCols)
    /\ box_locations = EmptyMap
    /\ call = InitCall
    /\ pre = [grid |-> grid, box_locations |-> box_locations]
    /\ trip = NoTrip
    /\ ncalls = 0
    /\ PlanIdle
    /\ model_zones = MODEL_ZONES
    /\ SlotIdle
    /\ UiIdle
    /\ GameIdle

\* store_item applying place_box when the request is accepted, as the
\* handlers without animation do
store_item_PlacesAtAccept(size) ==
    LET found == ZoneSlotResult(grid, model_zones, size, ORIGIN_ROW, ORIGIN_COL)
    IN /\ db_next <= MaxBoxId
       /\ IF is_animating \/ found = NoSlot
          THEN /\ event' = Event("store_rejected", "none")
               /\ UNCHANGED <<grid, box_locations>>
               /\ UNCHANGED <<is_animating, operation_mode, trolley_path, trolley_row,
                              trolley_col, pending_box_id, pending_position,
                              pending_size, db_next, db_stored, combo, request>>
          ELSE LET travel == AStarPathResult(<<ORIGIN_ROW, ORIGIN_COL>>, found)
                   return_path == AStarPathResult(found, <<ORIGIN_ROW, ORIGIN_COL>>)
                   res == PlaceBoxResult(grid, box_locations, db_next,
                                         found[1], found[2], size)
               IN /\ db_next' = db_next + 1
                  /\ db_stored' = db_stored \cup {db_next}
                  /\ grid' = res.grid
                  /\ box_locations' = res.box_locations
                  /\ trolley_path' = travel \o return_path
                  /\ pending_box_id' = db_next
                  /\ pending_position' = found
                  /\ pending_size' = size
                  /\ operation_mode' = "storing"
                  /\ is_animating' = TRUE
                  /\ request' = [op |-> "store", box_id |-> db_next, position |-> found,
                                 size |-> size, outbound |-> Len(travel),
                                 inbound |-> Len(return_path)]
                  /\ event' = Event("store_item", "place_box")
                  /\ UNCHANGED <<trolley_row, trolley_col, combo>>
       /\ UiFrame

\* store_item of src/ui/main_window.py for a model of the given size
store_item(size) ==
    LET found == ZoneSlotResult(grid, model_zones, size, ORIGIN_ROW, ORIGIN_COL)
    IN /\ db_next <= MaxBoxId
       /\ IF is_animating \/ found = NoSlot
          THEN /\ event' = Event("store_rejected", "none")
               /\ UNCHANGED <<grid, box_locations>>
               /\ UNCHANGED <<is_animating, operation_mode, trolley_path, trolley_row,
                              trolley_col, pending_box_id, pending_position,
                              pending_size, db_next, db_stored, combo, request>>
          ELSE LET travel == AStarPathResult(<<ORIGIN_ROW, ORIGIN_COL>>, found)
                   return_path == AStarPathResult(found, <<ORIGIN_ROW, ORIGIN_COL>>)
               IN /\ db_next' = db_next + 1
                  /\ db_stored' = db_stored \cup {db_next}
                  /\ trolley_path' = travel \o return_path
                  /\ pending_box_id' = db_next
                  /\ pending_position' = found
                  /\ pending_size' = size
                  /\ operation_mode' = "storing"
                  /\ is_animating' = TRUE
                  /\ request' = [op |-> "store", box_id |-> db_next, position |-> found,
                                 size |-> size, outbound |-> Len(travel),
                                 inbound |-> Len(return_path)]
                  /\ event' = Event("store_item", "none")
                  /\ UNCHANGED <<grid, box_locations, trolley_row, trolley_col, combo>>
       /\ UiFrame

\* retrieve_item_dispatcher and _start_retrieval of src/ui/main_window.py for
\* the entry of the combo box that is selected; None stands for the entry
\* "No items in warehouse" of an empty list
retrieve_item_dispatcher(box_id) ==
    /\ IF combo = {} THEN box_id = None ELSE box_id \in combo
    /\ IF is_animating \/ box_id = None \/ box_id \notin DOMAIN box_locations
       THEN /\ event' = Event("retrieve_rejected", "none")
            /\ UNCHANGED <<is_animating, operation_mode, trolley_path,
                           pending_box_id, request>>
       ELSE LET loc == box_locations[box_id]
                travel == AStarPathResult(<<ORIGIN_ROW, ORIGIN_COL>>, <<loc[1], loc[2]>>)
                return_path == AStarPathResult(<<loc[1], loc[2]>>, <<ORIGIN_ROW, ORIGIN_COL>>)
            IN /\ trolley_path' = travel \o return_path
               /\ pending_box_id' = box_id
               /\ operation_mode' = "retrieving"
               /\ is_animating' = TRUE
               /\ request' = [op |-> "retrieve", box_id |-> box_id,
                              position |-> <<loc[1], loc[2]>>, size |-> loc[3],
                              outbound |-> Len(travel), inbound |-> Len(return_path)]
               /\ event' = Event("retrieve", "none")
    /\ UNCHANGED <<grid, box_locations, trolley_row, trolley_col, pending_position,
                   pending_size, db_next, db_stored, combo>>
    /\ UiFrame

\* animate_trolley of src/ui/main_window.py, one timeout of animation_timer,
\* with complete_operation at the end of the path.  The timer runs exactly
\* while is_animating holds.  A KeyError raised by complete_operation leaves
\* the slot before operation_mode and the trolley position are reset.
animate_trolley ==
    /\ is_animating
    /\ IF trolley_path # <<>>
       THEN /\ trolley_row' = Head(trolley_path)[1]
            /\ trolley_col' = Head(trolley_path)[2]
            /\ trolley_path' = Tail(trolley_path)
            /\ event' = Event("animate_trolley", "none")
            /\ UNCHANGED <<grid, box_locations, is_animating, operation_mode,
                           db_stored, combo>>
       ELSE /\ is_animating' = FALSE
            /\ IF operation_mode = "storing"
               THEN LET res == PlaceBoxResult(grid, box_locations, pending_box_id,
                                              pending_position[1], pending_position[2],
                                              pending_size)
                    IN /\ grid' = res.grid
                       /\ box_locations' = res.box_locations
                       /\ combo' = db_stored
                       /\ event' = Event("complete_operation", "place_box")
                       /\ operation_mode' = "idle"
                       /\ trolley_row' = -1
                       /\ trolley_col' = -1
                       /\ UNCHANGED db_stored
               ELSE IF operation_mode = "retrieving"
               THEN IF pending_box_id \notin DOMAIN box_locations
                    THEN /\ event' = Event("complete_operation", "KeyError")
                         /\ UNCHANGED <<grid, box_locations, operation_mode,
                                        trolley_row, trolley_col, db_stored, combo>>
                    ELSE LET res == RemoveBoxResult(grid, box_locations, pending_box_id)
                         IN /\ grid' = res.grid
                            /\ box_locations' = res.box_locations
                            /\ db_stored' = db_stored \ {pending_box_id}
                            /\ combo' = db_stored'
                            /\ event' = Event("complete_operation", "remove_box")
                            /\ operation_mode' = "idle"
                            /\ trolley_row' = -1
                            /\ trolley_col' = -1
               ELSE /\ event' = Event("complete_operation", "none")
                    /\ operation_mode' = "idle"
                    /\ trolley_row' = -1
                    /\ trolley_col' = -1
                    /\ UNCHANGED <<grid, box_locations, db_stored, combo>>
            /\ UNCHANGED trolley_path
    /\ UNCHANGED <<pending_box_id, pending_position, pending_size, db_next, request>>
    /\ UiFrame

\* reset_warehouse of src/ui/main_window.py, the question answered Yes: a
\* new Rack and a new database; nothing of the window's animation state is
\* touched and the retrieval list is not refreshed
reset_warehouse ==
    /\ grid' = EmptyGrid(rows, cols)
    /\ box_locations' = EmptyMap
    /\ db_next' = 1
    /\ db_stored' = {}
    /\ event' = Event("reset_warehouse", "none")
    /\ UNCHANGED <<is_animating, operation_mode, trolley_path, trolley_row, trolley_col,
                   pending_box_id, pending_position, pending_size, combo, request>>
    /\ UiFrame

StoreItem == \E size \in Sizes : store_item(size)
RetrieveItem == \E box_id \in BoxIds \cup {None} : retrieve_item_dispatcher(box_id)
UiNext ==
    \/ StoreItem
    \/ RetrieveItem
    \/ animate_trolley
    \/ reset_warehouse
UiSpec == UiInit /\ [][UiNext]_vars

\* the store and retrieve workflows of src/ui/main_window.py by themselves:
\* the window used without its reset button
WorkflowNext ==
    \/ StoreItem
    \/ RetrieveItem
    \/ animate_trolley
WorkflowSpec == UiInit /\ [][WorkflowNext]_vars

\* store_item of asrs-complete.py for a model of the given size and a
\* non-empty SKU: no test of is_animating, the breadth-first slot, and
\* place_box at once (line 1530)
proto_store_item(size) ==
    LET found == BfsSlotResult(grid, size, ORIGIN_ROW, ORIGIN_COL)
    IN /\ db_next <= MaxBoxId
       /\ IF found = NoSlot
          THEN /\ event' = Event("store_rejected", "none")
               /\ UNCHANGED <<grid, box_locations, db_next, db_stored>>
          ELSE LET res == PlaceBoxResult(grid, box_locations, db_next,
                                         found[1], found[2], size)
               IN /\ db_next' = db_next + 1
                  /\ db_stored' = db_stored \cup {db_next}
                  /\ grid' = res.grid
                  /\ box_locations' = res.box_locations
                  /\ event' = Event("store_item", "place_box")
       /\ UNCHANGED <<is_animating, operation_mode, trolley_path, trolley_row,
                      trolley_col, pending_box_id, pending_position, pending_size,
                      combo, request>>
       /\ UiFrame

\* retrieve_item of asrs-complete.py for a numeric box id typed by the user
proto_retrieve_item(box_id) ==
    /\ IF is_animating \/ box_id \notin DOMAIN box_locations
       THEN /\ event' = Event("retrieve_rejected", "none")
            /\ UNCHANGED <<is_animating, operation_mode, trolley_path,
                           pending_box_id, request>>
       ELSE LET loc == box_locations[box_id]
                travel == AStarPathResult(<<ORIGIN_ROW, ORIGIN_COL>>, <<loc[1], loc[2]>>)
                return_path == AStarPathResult(<<loc[1], loc[2]>>, <<ORIGIN_ROW, ORIGIN_COL>>)
            IN /\ trolley_path' = travel \o return_path
               /\ pending_box_id' = box_id
               /\ operation_mode' = "retrieving"
               /\ is_animating' = TRUE
               /\ request' = [op |-> "retrieve", box_id |-> box_id,
                              position |-> <<loc[1], loc[2]>>, size |-> loc[3],
                              outbound |-> Len(travel), inbound |-> Len(return_path)]
               /\ event' = Event("retrieve", "none")
    /\ UNCHANGED <<grid, box_locations, trolley_row, trolley_col, pending_position,
                   pending_size, db_next, db_stored, combo>>
    /\ UiFrame

\* animate_trolley of asrs-complete.py, one timeout of animation_timer: at
\* the end of the path the timer is stopped and the window set to idle;
\* complete_operation is not called, here or anywhere else in the file
proto_animate_trolley ==
    /\ is_animating
    /\ IF trolley_path # <<>>
       THEN /\ trolley_row' = Head(trolley_path)[1]
            /\ trolley_col' = Head(trolley_path)[2]
            /\ trolley_path' = Tail(trolley_path)
            /\ event' = Event("animate_trolley", "none")
            /\ UNCHANGED <<is_animating, operation_mode>>
       ELSE /\ is_animating' = FALSE
            /\ operation_mode' = "idle"
            /\ event' = Event("animation_end", "none")
            /\ UNCHANGED <<trolley_path, trolley_row, trolley_col>>
    /\ UNCHANGED <<grid, box_locations, pending_box_id, pending_position, pending_size,
                   db_next, db_stored, combo, request>>
    /\ UiFrame

ProtoStoreItem == \E size \in Sizes : proto_store_item(size)
ProtoRetrieveItem == \E box_id \in BoxIds : proto_retrieve_item(box_id)
ProtoUiNext ==
    \/ ProtoStoreItem
    \/ ProtoRetrieveItem
    \/ proto_animate_trolley
ProtoUiSpec == UiInit /\ [][ProtoUiNext]_vars

(***************************************************************************)
(* The LIFO/FIFO prototype, game.py: its rack                              *)
(***************************************************************************)
GameRows == 2
GameCols == 2

\* the cells "for r in range(start_row, end_row): for c in range(start_col,
\* end_col)" subscripts for a box of the given length and width
BoxCells(length, width, start_row, start_col) ==
    {CellAt(RectCell(start_row, start_col, width, length, k)) : k \in 0..(width * length - 1)}

\* Rack.place_box(box, start_row, start_col) of game.py, lines 73-91: what it
\* does to the rack.  An IndexError of can_place_box leaves the rack as it is.
game_place_box(length, width, start_row, start_col) ==
    IF CanPlaceBoxResult(grid, length, width, start_row, start_col) # "True"
    THEN UNCHANGED <<grid, boxes, box_positions, next_box_id, box_order, placed>>
    ELSE LET cells == BoxCells(length, width, start_row, start_col)
         IN /\ grid' = [x \in DOMAIN grid |-> IF x \in cells THEN next_box_id ELSE grid[x]]
            /\ boxes' = (next_box_id :> <<length, width>>) @@ boxes
            /\ box_positions' = (next_box_id :> <<start_row, start_col>>) @@ box_positions
            /\ next_box_id' = next_box_id + 1
            /\ box_order' = Append(box_order, next_box_id)
            /\ placed' = Append(placed, next_box_id)

\* Rack.remove_box of game.py with line 109, box_order.remove(box_id), left out
game_remove_box_KeepsOrder(box_id) ==
    IF box_id \notin DOMAIN boxes
    THEN UNCHANGED <<grid, boxes, box_positions, next_box_id, box_order, placed>>
    ELSE LET pos == box_positions[box_id]
             box == boxes[box_id]
             cells == BoxCells(box[1], box[2], pos[1], pos[2])
         IN /\ grid' = [x \in DOMAIN grid |-> IF x \in cells THEN None ELSE grid[x]]
            /\ boxes' = [b \in DOMAIN boxes \ {box_id} |-> boxes[b]]
            /\ box_positions' = [b \in DOMAIN box_positions \ {box_id} |-> box_positions[b]]
            /\ UNCHANGED <<next_box_id, box_order, placed>>

\* Rack.remove_box(box_id) of game.py, lines 93-111: list.remove drops the
\* first occurrence
game_remove_box(box_id) ==
    IF box_id \notin DOMAIN boxes
    THEN UNCHANGED <<grid, boxes, box_positions, next_box_id, box_order, placed>>
    ELSE LET pos == box_positions[box_id]
             box == boxes[box_id]
             cells == BoxCells(box[1], box[2], pos[1], pos[2])
             first == CHOOSE i \in 1..Len(box_order) :
                          /\ box_order[i] = box_id
                          /\ \A j \in 1..(i - 1) : box_order[j] # box_id
         IN /\ grid' = [x \in DOMAIN grid |-> IF x \in cells THEN None ELSE grid[x]]
            /\ boxes' = [b \in DOMAIN boxes \ {box_id} |-> boxes[b]]
            /\ box_positions' = [b \in DOMAIN box_positions \ {box_id} |-> box_positions[b]]
            /\ box_order' = [i \in 1..(Len(box_order) - 1) |->
                                IF i < first THEN box_order[i] ELSE box_order[i + 1]]
            /\ UNCHANGED <<next_box_id, placed>>

\* Rack.get_lifo_box(), lines 113-116
get_lifo_box == IF box_order = <<>> THEN None ELSE box_order[Len(box_order)]

\* Rack.get_fifo_box(), lines 118-121
get_fifo_box == IF box_order = <<>> THEN None ELSE box_order[1]

\* Rack(GRID_ROWS, GRID_COLS), game.py line 242
GameRackInit ==
    /\ rows = GameRows
    /\ cols = GameCols
    /\ grid = EmptyGrid(GameRows, GameCols)
    /\ box_locations = EmptyMap
    /\ call = InitCall
    /\ pre = [grid |-> grid, box_locations |-> box_locations]
    /\ trip = NoTrip
    /\ ncalls = 0
    /\ PlanIdle
    /\ model_zones = MODEL_ZONES
    /\ SlotIdle
    /\ UiIdle
    /\ GameIdle

GameFrame ==
    /\ UNCHANGED <<rows, cols, box_locations, pre, trip>>
    /\ UNCHANGED <<planVars, slotVars>>

\* a place_box call with any box and any anchor, the ones outside the grid
\* included
GamePlaceBox ==
    \E length \in 1..MaxSize, width \in 1..MaxSize,
       start_row \in (-1)..rows, start_col \in (-1)..cols :
        /\ ncalls < MaxCalls
        /\ ncalls' = ncalls + 1
        /\ game_place_box(length, width, start_row, start_col)
        /\ call' = [op |-> "place_box", box_id |-> next_box_id, row |-> 0, col |-> 0,
                    size |-> 0,
                    ret |-> CanPlaceBoxResult(grid, length, width, start_row, start_col)]
        /\ GameFrame
        /\ UNCHANGED <<uiVars, pending_box, retrieving_box_id, animation_cells,
                       animation_cell_index, buttons_enabled>>

\* a remove_box call with any id, absent ones included
GameRemoveBox ==
    \E box_id \in 1..MaxCalls :
        /\ ncalls < MaxCalls
        /\ ncalls' = ncalls + 1
        /\ game_remove_box(box_id)
        /\ call' = [op |-> "remove_box", box_id |-> box_id, row |-> 0, col |-> 0,
                    size |-> 0,
                    ret |-> IF box_id \in DOMAIN boxes THEN "True" ELSE "False"]
        /\ GameFrame
        /\ UNCHANGED <<uiVars, pending_box, retrieving_box_id, animation_cells,
                       animation_cell_index, buttons_enabled>>

GameRackNext == GamePlaceBox \/ GameRemoveBox
GameRackSpec == GameRackInit /\ [][GameRackNext]_vars

(***************************************************************************)
(* The LIFO/FIFO prototype, game.py: its window                            *)
(***************************************************************************)
GameUiRows == 3
GameUiCols == 2
MaxGameBoxes == 2
RetrievalModes == {"LIFO", "FIFO", "BY ID"}

gameRackVars == <<grid, boxes, box_positions, next_box_id, box_order, placed>>

\* a_star_pathfinding(grid, start, goal) of game.py as one call: the loop of
\* lines 178-208 run until the return of line 187 or of line 210
RECURSIVE GameAStarRun(_, _, _, _)
GameAStarRun(e, open, cf, gs) ==
    IF open = {} THEN <<>>
    ELSE LET top == HeapTop2(open)
             current == top[2]
             tentative_g == gs[current] + 1
             better == {n \in GameNeighbors(current) :
                           n \notin DOMAIN gs \/ tentative_g < gs[n]}
         IN IF current = e THEN ReconstructPath(cf, current)
            ELSE GameAStarRun(e,
                     (open \ {top}) \cup
                         {<<tentative_g + calculate_distance(n, e), n>> : n \in better},
                     [x \in (DOMAIN cf) \cup better |-> IF x \in better THEN current ELSE cf[x]],
                     [x \in (DOMAIN gs) \cup better |->
                         IF x \in better THEN tentative_g ELSE gs[x]])
GameAStarResult(s, e) == GameAStarRun(e, {<<0, s>>}, <<>>, [x \in {s} |-> 0])

\* the list animate fills with "for r in range(start_row, start_row +
\* box.width): for c in range(start_col, start_col + box.length)"
AnimationCells(box, position) ==
    [k \in 1..(box[1] * box[2]) |-> RectCell(position[1], position[2], box[2], box[1], k - 1)]

\* ASRSWindow.__init__ of game.py without a save file, lines 238-265
GameUiInit ==
    /\ rows = GameUiRows
    /\ cols = GameUiCols
    /\ grid = EmptyGrid(GameUiRows, GameUiCols)
    /\ box_locations = EmptyMap
    /\ call = InitCall
    /\ pre = [grid |-> grid, box_locations |-> box_locations]
    /\ trip = NoTrip
    /\ ncalls = 0
    /\ PlanIdle
    /\ model_zones = MODEL_ZONES
    /\ SlotIdle
    /\ UiIdle
    /\ GameIdle

\* what a handler of game.py's window leaves alone
GameUiFrame ==
    /\ UNCHANGED <<rows, cols, box_locations>>
    /\ UNCHANGED <<histVars, planVars, slotVars>>
    /\ UNCHANGED <<pending_box_id, pending_size, db_next, db_stored, combo, request>>

\* start_storage_animation(box, position, path), lines 503-516
start_storage_animation(box, position, p) ==
    /\ is_animating' = TRUE
    /\ operation_mode' = "storing_moving"
    /\ pending_box' = box
    /\ pending_position' = position
    /\ trolley_path' = p
    /\ animation_cell_index' = 0
    /\ buttons_enabled' = FALSE

\* start_retrieval_animation(box_id, position, path, mode_name), lines 518-531
start_retrieval_animation(box_id, position, p) ==
    /\ is_animating' = TRUE
    /\ operation_mode' = "retrieving_moving"
    /\ retrieving_box_id' = box_id
    /\ pending_position' = position
    /\ trolley_path' = p
    /\ animation_cell_index' = 0
    /\ buttons_enabled' = FALSE

\* add_box, lines 442-465, with the two input fields holding integers
add_box(length, width) ==
    LET target == ClosestResult(grid, length, width, ORIGIN_ROW, ORIGIN_COL)
    IN /\ next_box_id <= MaxGameBoxes
       /\ IF \/ is_animating
             \/ length <= 0 \/ width <= 0 \/ length > cols \/ width > rows
             \/ target = NoSlot
          THEN /\ event' = Event("add_box", "rejected")
               /\ UNCHANGED <<is_animating, operation_mode, pending_box, pending_position,
                              trolley_path, animation_cell_index, buttons_enabled>>
          ELSE /\ start_storage_animation(<<length, width>>, target,
                       GameAStarResult(<<trolley_row, trolley_col>>, target))
               /\ event' = Event("add_box", "accepted")
       /\ UNCHANGED gameRackVars
       /\ UNCHANGED <<trolley_row, trolley_col, retrieving_box_id, animation_cells>>
       /\ GameUiFrame

\* retrieve_box, lines 467-501, with the mode of the combo box and the id
\* typed for 'BY ID'; start_retrieval_animation runs twice with the same
\* box, position and path
retrieve_box(mode, typed) ==
    LET box_id == IF mode = "LIFO" THEN get_lifo_box
                  ELSE IF mode = "FIFO" THEN get_fifo_box
                  ELSE typed
    IN /\ IF \/ is_animating
             \/ DOMAIN boxes = {}
             \/ mode = "BY ID" /\ typed \notin DOMAIN boxes
          THEN /\ event' = Event("retrieve_box", "rejected")
               /\ UNCHANGED <<is_animating, operation_mode, retrieving_box_id,
                              pending_position, trolley_path, animation_cell_index,
                              buttons_enabled>>
          ELSE /\ start_retrieval_animation(box_id, box_positions[box_id],
                       GameAStarResult(<<trolley_row, trolley_col>>, box_positions[box_id]))
               /\ event' = Event("retrieve_box", "accepted")
       /\ UNCHANGED gameRackVars
       /\ UNCHANGED <<trolley_row, trolley_col, pending_box, animation_cells>>
       /\ GameUiFrame

\* "next_row, next_col = self.trolley_path.pop(0)" and the two assignments
\* that follow it
PopStep ==
    /\ trolley_row' = trolley_path[1][1]
    /\ trolley_col' = trolley_path[1][2]
    /\ trolley_path' = Tail(trolley_path)

\* animate, lines 533-633: one timeout of animation_timer, which runs from
\* start_*_animation until the stop of line 615
animate ==
    /\ is_animating
    /\ \/ /\ operation_mode = "storing_moving"
          /\ IF trolley_path # <<>>
             THEN /\ PopStep
                  /\ IF Tail(trolley_path) = <<>>
                     THEN /\ operation_mode' = "storing_placing"
                          /\ animation_cell_index' = 0
                          /\ animation_cells' = AnimationCells(pending_box, pending_position)
                     ELSE UNCHANGED <<operation_mode, animation_cell_index, animation_cells>>
             ELSE UNCHANGED <<trolley_row, trolley_col, trolley_path, operation_mode,
                              animation_cell_index, animation_cells>>
          /\ event' = Event("animate", "none")
          /\ UNCHANGED gameRackVars
          /\ UNCHANGED <<is_animating, buttons_enabled>>
       \/ /\ operation_mode = "storing_placing"
          /\ IF animation_cell_index < Len(animation_cells)
             THEN /\ animation_cell_index' = animation_cell_index + 1
                  /\ event' = Event("animate", "none")
                  /\ UNCHANGED gameRackVars
                  /\ UNCHANGED <<operation_mode, trolley_path>>
             ELSE /\ game_place_box(pending_box[1], pending_box[2],
                                    pending_position[1], pending_position[2])
                  /\ operation_mode' = "returning"
                  /\ trolley_path' = GameAStarResult(<<trolley_row, trolley_col>>,
                                                     <<ORIGIN_ROW, ORIGIN_COL>>)
                  /\ event' = Event("animate", "place_box")
                  /\ UNCHANGED animation_cell_index
          /\ UNCHANGED <<trolley_row, trolley_col, animation_cells, is_animating,
                         buttons_enabled>>
       \/ /\ operation_mode = "retrieving_moving"
          /\ IF trolley_path # <<>>
             THEN /\ PopStep
                  /\ IF Tail(trolley_path) = <<>>
                     THEN /\ operation_mode' = "retrieving_picking"
                          /\ animation_cell_index' = 0
                          /\ IF retrieving_box_id \in DOMAIN boxes
                             THEN /\ animation_cells' = AnimationCells(
                                         boxes[retrieving_box_id], pending_position)
                                  /\ event' = Event("animate", "none")
                             ELSE /\ UNCHANGED animation_cells
                                  /\ event' = Event("animate", "KeyError")
                     ELSE /\ UNCHANGED <<operation_mode, animation_cell_index,
                                         animation_cells>>
                          /\ event' = Event("animate", "none")
             ELSE /\ UNCHANGED <<trolley_row, trolley_col, trolley_path, operation_mode,
                                 animation_cell_index, animation_cells>>
                  /\ event' = Event("animate", "none")
          /\ UNCHANGED gameRackVars
          /\ UNCHANGED <<is_animating, buttons_enabled>>
       \/ /\ operation_mode = "retrieving_picking"
          /\ IF animation_cell_index < Len(animation_cells)
             THEN /\ animation_cell_index' = animation_cell_index + 1
                  /\ event' = Event("animate", "none")
                  /\ UNCHANGED gameRackVars
                  /\ UNCHANGED <<operation_mode, trolley_path>>
             ELSE /\ game_remove_box(retrieving_box_id)
                  /\ operation_mode' = "returning"
                  /\ trolley_path' = GameAStarResult(<<trolley_row, trolley_col>>,
                                                     <<ORIGIN_ROW, ORIGIN_COL>>)
                  /\ event' = Event("animate", "remove_box")
                  /\ UNCHANGED animation_cell_index
          /\ UNCHANGED <<trolley_row, trolley_col, animation_cells, is_animating,
                         buttons_enabled>>
       \/ /\ operation_mode = "returning"
          /\ IF trolley_path # <<>>
             THEN /\ PopStep
                  /\ IF Tail(trolley_path) = <<>>
                     THEN /\ is_animating' = FALSE
                          /\ operation_mode' = "idle"
                          /\ buttons_enabled' = TRUE
                     ELSE UNCHANGED <<is_animating, operation_mode, buttons_enabled>>
             ELSE UNCHANGED <<trolley_row, trolley_col, trolley_path, is_animating,
                              operation_mode, buttons_enabled>>
          /\ event' = Event("animate", "none")
          /\ UNCHANGED gameRackVars
          /\ UNCHANGED <<animation_cell_index, animation_cells>>
    /\ UNCHANGED <<pending_box, pending_position, retrieving_box_id>>
    /\ GameUiFrame

\* reset_rack, lines 639-654, the question answered Yes: a new Rack and the
\* trolley at the origin; the animation state is not touched
reset_rack ==
    /\ grid' = EmptyGrid(rows, cols)
    /\ boxes' = EmptyMap
    /\ box_positions' = EmptyMap
    /\ next_box_id' = 1
    /\ box_order' = <<>>
    /\ placed' = <<>>
    /\ trolley_row' = ORIGIN_ROW
    /\ trolley_col' = ORIGIN_COL
    /\ event' = Event("reset_rack", "none")
    /\ UNCHANGED <<is_animating, operation_mode, trolley_path, pending_box,
                   pending_position, retrieving_box_id, animation_cells,
                   animation_cell_index, buttons_enabled>>
    /\ GameUiFrame

AddBox == \E length \in 0..MaxSize, width \in 0..MaxSize : add_box(length, width)
RetrieveBox == \E mode \in RetrievalModes, typed \in 1..(MaxGameBoxes + 1) :
                   retrieve_box(mode, typed)
GameUiNext ==
    \/ AddBox
    \/ RetrieveBox
    \/ animate
    \/ reset_rack
GameUiSpec == GameUiInit /\ [][GameUiNext]_vars

(***************************************************************************)
(* Properties of the rack                                                  *)
(***************************************************************************)
\* The cells of the size x size footprint anchored at <<row, col>>.
Footprint(row, col, size) == (row..(row + size - 1)) \X (col..(col + size - 1))
FootprintOf(loc) == Footprint(loc[1], loc[2], loc[3])
InBounds(row, col, size) ==
    /\ row >= 0 /\ col >= 0
    /\ row + size <= rows /\ col + size <= cols
RackUnchanged == grid = pre.grid /\ box_locations = pre.box_locations

\* C1 - No double occupancy: a place_box whose footprint shares a cell with
\* the footprint of another box already on the rack fails and writes
\* nothing, and the cells of the earlier box still hold its id.
C1_NoDoubleOccupancy ==
    \A t1 \in DOMAIN pre.box_locations :
        ( /\ call.op = "place_box"
          /\ call.box_id # t1
          /\ Footprint(call.row, call.col, call.size)
                \cap FootprintOf(pre.box_locations[t1]) # {} )
        => /\ call.ret # "None"
           /\ RackUnchanged
           /\ \A x \in FootprintOf(pre.box_locations[t1]) : grid[x] = t1

\* C2 - Reverse-map consistency: every box of box_locations has each cell of
\* its footprint inside the grid and mapped to its own id (hence to no other).
C2_ReverseMapConsistent ==
    \A t \in DOMAIN box_locations :
        \A x \in FootprintOf(box_locations[t]) :
            x \in Cells /\ grid[x] = t

\* C3 - Placement round-trip: place_box(id, A, S) with the footprint inside
\* the grid, directly followed by remove_box(id), leaves every cell, the
\* reverse map and the occupied-cell count as they were before the place_box.
C3_PlacementRoundTrip ==
    ( /\ trip.valid
      /\ InBounds(trip.place.row, trip.place.col, trip.place.size) )
    => /\ grid = trip.grid
       /\ box_locations = trip.box_locations
       /\ get_occupied_cells(grid) = get_occupied_cells(trip.grid)

\* C4 - Out-of-bounds placement is atomic: a place_box whose footprint
\* leaves the grid ends in an error and changes neither grid nor reverse map.
C4_OutOfBoundsAtomic ==
    ( /\ call.op = "place_box"
      /\ ~InBounds(call.row, call.col, call.size) )
    => /\ call.ret # "None"
       /\ RackUnchanged

\* C5 - remove_box of an id that is not in box_locations returns False and
\* leaves every grid cell and every reverse-map entry unchanged.
C5_RemoveUnknownIsNoOp ==
    ( /\ call.op = "remove_box"
      /\ call.box_id \notin DOMAIN pre.box_locations )
    => /\ call.ret = "False"
       /\ RackUnchanged

\* A remove_box of an absent id was made while another box is on the rack.
C5_Witness ==
    /\ call.op = "remove_box"
    /\ call.box_id \notin DOMAIN pre.box_locations
    /\ DOMAIN box_locations # {}
    /\ \E x \in Cells : grid[x] # None

(***************************************************************************)
(* Properties of the path planners                                         *)
(***************************************************************************)
FourNeighbors(x) ==
    {<<x[1] - 1, x[2]>>, <<x[1] + 1, x[2]>>, <<x[1], x[2] - 1>>, <<x[1], x[2] + 1>>}
        \cap Cells
Adjacent(a, b) == calculate_distance(a, b) = 1

\* The cells an agent may stand on: the free cells, and the start and goal
\* cells whatever they hold.
Walkable(x) == grid[x] = None \/ x = start \/ x = goal

\* Breadth-first search from start over the walkable cells, layer by layer:
\* the number of steps to the goal, or Infinity when it cannot be reached.
RECURSIVE BfsLayer(_, _, _)
BfsLayer(frontier, seen, d) ==
    IF goal \in frontier THEN d
    ELSE LET next == {y \in UNION {FourNeighbors(x) : x \in frontier} :
                         Walkable(y) /\ y \notin seen}
         IN IF next = {} THEN Infinity
            ELSE BfsLayer(next, seen \cup next, d + 1)
BfsDistance == BfsLayer({start}, {start}, 0)

\* A planner has returned a non-empty path.
PathReturned == pc = "done" /\ path # <<>>
\* Number of steps of the returned path: game.py leaves the start cell out.
PathSteps == IF alg = "game" THEN Len(path) ELSE Len(path) - 1
\* The cell every entry of the heap stands for.
HeapCells == {IF alg = "game" THEN e[2] ELSE e[3] : e \in open_set}

\* C6 - A* optimality: the number of steps of a returned path equals the
\* breadth-first shortest distance from start to goal over the free cells.
C6_AStarOptimal ==
    PathReturned => PathSteps = BfsDistance

\* C7 - Every cell of a returned path other than start and goal is
\* unoccupied, and no occupied neighbour is ever put on the heap.
C7_PathAvoidsOccupied ==
    /\ PathReturned => \A i \in 1..Len(path) : Walkable(path[i])
    /\ pc # "idle" => \A x \in HeapCells : Walkable(x)

\* C8 - No-path correctness: when every in-bounds 4-neighbour of the goal
\* is occupied and start differs from goal, the result is the empty path.
C8_EnclosedGoalNoPath ==
    ( /\ pc = "done"
      /\ start # goal
      /\ \A n \in FourNeighbors(goal) : grid[n] # None )
    => path = <<>>

\* C9 as stated - the planner returns the empty sequence when start = goal.
C9_EmptyWhenStartIsGoal ==
    (pc = "done" /\ start = goal) => path = <<>>

\* C9 - When start equals goal the planner returns the zero-step path of
\* its convention: the empty sequence where the start cell is left out
\* (game.py), the one-cell sequence <<start>> where it is kept
\* (a_star_path, with cost 0, and A_star.py).
C9_ZeroStepPathWhenStartIsGoal ==
    (pc = "done" /\ start = goal) =>
        /\ alg = "game" => path = <<>>
        /\ alg = "a_star_path" => path = <<start>> /\ cost = 0
        /\ alg = "demo" => path = <<start>>
        /\ PathSteps = 0

\* A search with start = goal has returned, on a grid with occupied cells.
C9_Witness ==
    /\ pc = "done"
    /\ start = goal
    /\ alg = "a_star_path"
    /\ path = <<start>>
    /\ \E x \in Cells : grid[x] # None

\* C10 - Path well-formedness: a returned non-empty path holds in-bounds
\* cells only, ends at the goal, begins at the start or at a 4-neighbour of
\* it, and consecutive cells differ by one step in one axis.
C10_PathWellFormed ==
    PathReturned =>
        /\ \A i \in 1..Len(path) : path[i] \in Cells
        /\ path[Len(path)] = goal
        /\ path[1] = start \/ Adjacent(path[1], start)
        /\ \A i \in 1..(Len(path) - 1) : Adjacent(path[i], path[i + 1])

\* A path of several steps has been returned by the parent-pointer search.
C10_Witness ==
    /\ PathReturned
    /\ alg = "game"
    /\ Len(path) >= 3
    /\ path[1] # start

(***************************************************************************)
(* Properties of the slot allocators                                       *)
(***************************************************************************)
\* The h x w footprint anchored at x lies in the grid and every cell of it
\* is unoccupied.
FitsAt(x, h, w) ==
    /\ x[1] >= 0 /\ x[2] >= 0
    /\ x[1] + h <= rows /\ x[2] + w <= cols
    /\ \A y \in (x[1]..(x[1] + h - 1)) \X (x[2]..(x[2] + w - 1)) : grid[y] = None
SlotSearchDone(a) == pc = "done" /\ alg = a
SizeAsked == model_size[1]

\* C11 - BFS slot monotonicity (Strategy A): the slot the breadth-first search
\* returns is at a Manhattan distance from the origin no greater than that
\* of any anchor at which the footprint fits, and the origin is returned when
\* the footprint fits there.
C11_BfsSlotNearest ==
    SlotSearchDone("bfs_slot") =>
        /\ slot # NoSlot =>
              \A x \in Cells :
                  FitsAt(x, SizeAsked, SizeAsked) =>
                      calculate_distance(slot, origin) <= calculate_distance(x, origin)
        /\ FitsAt(origin, SizeAsked, SizeAsked) => slot = origin
\* the search went past an occupied origin and chose among anchors at
\* different distances
C11_Witness ==
    /\ SlotSearchDone("bfs_slot")
    /\ slot # NoSlot
    /\ grid[origin] # None
    /\ calculate_distance(slot, origin) >= 2
    /\ \E x \in Cells :
        /\ FitsAt(x, SizeAsked, SizeAsked)
        /\ calculate_distance(x, origin) > calculate_distance(slot, origin)

\* C12 - Strategy A completeness: the breadth-first search returns None
\* exactly when no cell of the grid is an anchor at which the footprint fits;
\* a slot it returns is such an anchor.
C12_BfsSlotComplete ==
    SlotSearchDone("bfs_slot") =>
        /\ (slot = NoSlot) <=> ~(\E x \in Cells : FitsAt(x, SizeAsked, SizeAsked))
        /\ slot # NoSlot => slot \in Cells /\ FitsAt(slot, SizeAsked, SizeAsked)
\* None returned from a free origin on a rack that still has free cells
\* but no free footprint of the size asked for
C12_Witness ==
    /\ SlotSearchDone("bfs_slot")
    /\ slot = NoSlot
    /\ grid[origin] = None
    /\ Cardinality({x \in Cells : grid[x] = None}) >= 2

\* The rows of the size-row footprint anchored at row r are all rows of the
\* zone configured for that size.
RowsInZone(zones, size, r) ==
    /\ size \in DOMAIN zones
    /\ \A q \in r..(r + size - 1) : zones[size][1] <= q /\ q <= zones[size][2]
\* The anchors the zone scan may return.
ZoneAnchors(zones, size) ==
    {x \in Cells : RowsInZone(zones, size, x[1]) /\ FitsAt(x, size, size)}

\* C13 - Zone containment (Strategy B): a slot the zone scan returns has
\* every row of its footprint inside the row range configured for the size
\* and every column inside the grid.
C13_ZoneContainment ==
    (SlotSearchDone("zone_slot") /\ slot # NoSlot) =>
        /\ RowsInZone(model_zones, SizeAsked, slot[1])
        /\ 0 <= slot[2] /\ slot[2] + SizeAsked <= cols
\* a size-2 slot returned in a zone that ends above the last row, where the
\* footprint one row lower is free as well but leaves the zone
C13_Witness ==
    /\ SlotSearchDone("zone_slot")
    /\ slot # NoSlot
    /\ SizeAsked = 2
    /\ FitsAt(<<slot[1] + 1, slot[2]>>, 2, 2)
    /\ ~RowsInZone(model_zones, 2, slot[1] + 1)

\* C14 - Strategy B result: None for a size without a zone; otherwise the
\* first anchor, rows from the zone's first to its last and columns left to
\* right, whose footprint stays in the zone's rows and is unoccupied, and
\* None exactly when there is no such anchor.
C14_ZoneFirstFit ==
    SlotSearchDone("zone_slot") =>
        /\ SizeAsked \notin DOMAIN model_zones => slot = NoSlot
        /\ (slot = NoSlot) <=> (ZoneAnchors(model_zones, SizeAsked) = {})
        /\ slot # NoSlot =>
              /\ slot \in ZoneAnchors(model_zones, SizeAsked)
              /\ \A y \in ZoneAnchors(model_zones, SizeAsked) : ~CellLess(y, slot)
\* None for a size that has a zone, with a free anchor outside the zone
C14_Witness ==
    /\ SlotSearchDone("zone_slot")
    /\ slot = NoSlot
    /\ SizeAsked \in DOMAIN model_zones
    /\ \E x \in Cells : FitsAt(x, SizeAsked, SizeAsked)

\* C15 - Nearest slot of the zone: among the anchors of the zone at which
\* the footprint fits, the one the zone scan returns is at the least
\* Manhattan distance from (origin_row, origin_col).
C15_ZoneSlotNearest ==
    (SlotSearchDone("zone_slot") /\ slot # NoSlot) =>
        \A y \in ZoneAnchors(model_zones, SizeAsked) :
            calculate_distance(slot, origin) <= calculate_distance(y, origin)

\* C16 - The footprint-free predicate is exact: for every integer anchor it
\* returns, without error, True when every cell of the footprint is in the
\* grid and unoccupied and False otherwise, False in particular for an
\* anchor with a negative coordinate.
C16_FootprintExact ==
    (pc = "done" /\ alg \in {"_can_fit", "can_place_box"}) =>
        /\ fit.ret \in {"True", "False"}
        /\ (fit.ret = "True") <=> FitsAt(<<fit.row, fit.col>>, fit.width, fit.length)

(***************************************************************************)
(* Frame of the planners and allocators                                    *)
(***************************************************************************)
\* C17 - Planning is read-only: no step of a call of a path planner or of a
\* slot allocator, whatever the call returns, changes a cell of the grid or
\* an entry of the reverse map.
C17_PlanningReadOnly ==
    [][EngineNext => (grid' = grid /\ box_locations' = box_locations)]_vars
\* a planner or allocator call has returned on a rack that holds boxes: a
\* path, a slot, or nothing
C17_Witness ==
    /\ pc = "done"
    /\ alg \in {"a_star_path", "game", "zone_slot", "bfs_slot", "closest"}
    /\ DOMAIN box_locations # {}
    /\ grid = pre.grid
    /\ path # <<>> \/ slot # NoSlot

(***************************************************************************)
(* Properties of the workflows                                             *)
(***************************************************************************)
RackSame == grid' = grid /\ box_locations' = box_locations
\* the rack after place_box with the arguments of the accepted request
PlacedAsRequested ==
    LET res == PlaceBoxResult(grid, box_locations, request.box_id,
                              request.position[1], request.position[2], request.size)
    IN grid' = res.grid /\ box_locations' = res.box_locations

\* C18 - Animated store: accepting a store request does not touch the rack;
\* while the request is being animated no step but a reset changes grid or
\* box_locations as long as the trolley path is not exhausted; the tick that
\* finds the path exhausted applies place_box with the box id, slot and size
\* computed at acceptance, and ends the operation, so it is applied once.
C18_StoreAppliesAfterTravel ==
    [][/\ event'.name = "store_item" => RackSame
       /\ (operation_mode = "storing" /\ is_animating
               /\ event'.name # "reset_warehouse") =>
             IF trolley_path # <<>> \/ event'.name # "complete_operation"
             THEN RackSame
             ELSE /\ request.op = "store"
                  /\ PlacedAsRequested
                  /\ event'.rack_call = "place_box"
                  /\ operation_mode' = "idle" /\ ~is_animating'
       /\ event'.rack_call = "place_box" =>
             operation_mode = "storing" /\ is_animating /\ trolley_path = <<>>]_vars
\* a second store has completed: its box stands at the slot computed when it
\* was accepted, next to the box of the first
C18_Witness ==
    /\ event.name = "complete_operation"
    /\ event.rack_call = "place_box"
    /\ request.op = "store"
    /\ request.box_id \in DOMAIN box_locations
    /\ box_locations[request.box_id] =
           <<request.position[1], request.position[2], request.size>>
    /\ Cardinality(DOMAIN box_locations) >= 2
    /\ operation_mode = "idle"

\* C19 - Retrieval ordering: the footprint is removed while the trolley
\* stands at the anchor looked up when the retrieval was accepted, with the
\* outbound leg consumed and the return leg not yet begun.
C19_RemovalBetweenLegs ==
    event.rack_call = "remove_box" =>
        /\ request.op = "retrieve"
        /\ event.at = request.position
        /\ event.steps_left <= request.inbound
        /\ event.steps_left >= request.inbound

\* C20 - Retrieval liveness, as what holds when the ticks have run out: once
\* the animation of an accepted retrieval has ended with the window idle and
\* is_animating false, remove_box has been applied for the token: its
\* reverse-map entry is deleted and no cell holds it.
C20_RetrievalCompleted ==
    (event.name = "animation_end" /\ request.op = "retrieve") =>
        /\ ~is_animating /\ operation_mode = "idle"
        /\ request.box_id \notin DOMAIN box_locations
        /\ \A x \in Cells : grid[x] # request.box_id

(***************************************************************************)
(* Properties of the distance and of the searches                          *)
(***************************************************************************)
\* the larger minus the smaller
Gap(m, n) == IF m >= n THEN m - n ELSE n - m

\* C22 - The distance is symmetric and zero on identical cells:
\* calculate_distance(a, b) = calculate_distance(b, a) = |a.row - b.row| +
\* |a.col - b.col|, and calculate_distance(a, a) = 0.
C22_DistanceSymmetric ==
    (pc = "done" /\ alg = "calculate_distance") =>
        /\ cost = g_score[1]
        /\ cost = Gap(start[1], goal[1]) + Gap(start[2], goal[2])
        /\ g_score[2] = 0
        /\ start = goal => cost = 0
\* the distance of two cells that differ in both coordinates, the first
\* above and to the right of the second
C22_Witness ==
    /\ pc = "done" /\ alg = "calculate_distance"
    /\ start[1] < goal[1] /\ start[2] > goal[2]
    /\ cost = 4

\* a store or retrieve click: accepted, or turned down
ClickEvents == {"store_item", "store_rejected", "retrieve", "retrieve_rejected"}
PendingSame ==
    /\ pending_box_id' = pending_box_id
    /\ pending_position' = pending_position
    /\ pending_size' = pending_size
    /\ operation_mode' = operation_mode

\* C21 - One operation at a time: a store or retrieve request made while
\* is_animating holds is rejected and changes neither the rack, nor the
\* pending box id, position, size and mode, nor the trolley path.
C21_OneOperationAtATime ==
    [][(is_animating /\ event'.name \in ClickEvents) =>
          /\ event'.name \in {"store_rejected", "retrieve_rejected"}
          /\ RackSame
          /\ PendingSame
          /\ trolley_path' = trolley_path]_vars

\* C23 - Every planning call terminates: a search that has been entered
\* reaches its return, with a result or with the no-path / None outcome, and
\* in the variants that keep a visited set a pass that expands a cell
\* expands one that was not expanded before.
C23_SearchTerminates ==
    /\ (pc = "search") ~> (pc = "done")
    /\ [][(pc = "search" /\ alg \in {"a_star_path", "demo", "bfs_slot"}
               /\ visited' # visited) =>
             \E x \in Cells \ visited : visited' = visited \cup {x}]_vars
\* searches that returned without a result after expanding several cells
C23_Witness ==
    /\ pc = "done"
    /\ \/ alg = "demo" /\ path = <<>>
       \/ alg = "bfs_slot" /\ slot = NoSlot
    /\ Cardinality(visited) >= 2

\* _can_fit with the zone condition written as one range test per row
DirectZoneFit(row, col, size) ==
    IF row + size > rows \/ col + size > cols THEN "False"
    ELSE IF ~RowsInZone(model_zones, size, row) THEN "False"
    ELSE IF FitsAt(<<row, col>>, size, size) THEN "True" ELSE "False"

\* C24 - The nested all-zones test of _can_fit amounts to a range test: for
\* every zone table, overlapping zones included, every size that has a zone
\* and every anchor, _can_fit returns what it would return with the zone
\* condition replaced by "every row of the footprint lies in the inclusive
\* row range of the zone of the size".
C24_ZoneTestIsRangeTest ==
    (pc = "done" /\ alg = "zone_can_fit" /\ fit.width \in DOMAIN model_zones) =>
        fit.ret = DirectZoneFit(fit.row, fit.col, fit.width)
\* an anchor turned down by the zone condition alone: in the grid, free,
\* its first row in the zone of the size, its last row in another zone only
C24_Witness ==
    /\ pc = "done" /\ alg = "zone_can_fit"
    /\ fit.width \in DOMAIN model_zones
    /\ fit.ret = "False"
    /\ FitsAt(<<fit.row, fit.col>>, fit.width, fit.width)
    /\ InZone(model_zones[fit.width], fit.row)
    /\ \E z \in DOMAIN model_zones : InZone(model_zones[z], fit.row + fit.width - 1)

RECURSIVE SumOfSquares(_, _)
SumOfSquares(locs, ids) ==
    IF ids = {} THEN 0
    ELSE LET b == CHOOSE x \in ids : TRUE
         IN locs[b][3] * locs[b][3] + SumOfSquares(locs, ids \ {b})

\* C25 - Workflow-level occupancy invariant: in every state the store and
\* retrieve workflows reach from the empty rack, no two boxes of
\* box_locations overlap, every occupied cell lies in the footprint of the
\* box whose id it holds, and the number of occupied cells is the sum of
\* size squared over box_locations.
C25_WorkflowOccupancy ==
    /\ \A b1 \in DOMAIN box_locations : \A b2 \in DOMAIN box_locations :
           b1 # b2 => FootprintOf(box_locations[b1]) \cap FootprintOf(box_locations[b2]) = {}
    /\ \A x \in Cells :
           grid[x] # None =>
               /\ grid[x] \in DOMAIN box_locations
               /\ x \in FootprintOf(box_locations[grid[x]])
    /\ get_occupied_cells(grid) = SumOfSquares(box_locations, DOMAIN box_locations)
\* two boxes stored, of different sizes, and one of them retrieved again
C25_Witness ==
    /\ event.rack_call = "remove_box"
    /\ DOMAIN box_locations # {}
    /\ db_next = MaxBoxId + 1
    /\ get_occupied_cells(grid) >= 1

\* C27 - The pending operation stays valid: whenever the animation of a
\* retrieval completes, under any interleaving of store, retrieve and reset
\* with the timer ticks, the pending box id is a key of box_locations of the
\* current rack and the completion removes it without error.
C27_PendingRetrievalValid ==
    (event.name = "complete_operation" /\ request.op = "retrieve") =>
        /\ event.rack_call = "remove_box"
        /\ request.box_id \notin DOMAIN box_locations
        /\ operation_mode = "idle"

\* a_star_path run with the neighbours of a rack on which nothing is stored
RECURSIVE EmptyRackRun(_, _, _)
EmptyRackRun(end, open, vis) ==
    IF open = {} THEN <<>>
    ELSE LET top == HeapTop4(open)
             current == top[3]
         IN IF current = end THEN <<top[4], top[2]>>
            ELSE IF current \in vis THEN EmptyRackRun(end, open \ {top}, vis)
            ELSE EmptyRackRun(end,
                     (open \ {top}) \cup
                         {<<(top[2] + 1) + Gap(n[1], end[1]) + Gap(n[2], end[2]),
                            top[2] + 1, n, Append(top[4], n)>> : n \in FourNeighbors(current)},
                     vis \cup {current})
EmptyRackPath(s, e) ==
    EmptyRackRun(e, {<<Gap(s[1], e[1]) + Gap(s[2], e[2]), 0, s, <<s>>>>}, {})

\* C28 - a_star_path does not depend on occupancy: on every rack of the same
\* rows and cols it returns the path and cost it returns on the empty one;
\* the path starts at start and ends at end, the cost is len(path) - 1 and
\* the Manhattan distance, and the no-path result is never returned.
C28_PathIgnoresOccupancy ==
    (pc = "done" /\ alg = "a_star_path") =>
        /\ <<path, cost>> = EmptyRackPath(start, goal)
        /\ path # <<>>
        /\ cost # Infinity
        /\ path[1] = start
        /\ path[Len(path)] = goal
        /\ cost = Len(path) - 1
        /\ cost = Gap(start[1], goal[1]) + Gap(start[2], goal[2])
\* a path returned across occupied cells, to a goal that is occupied
C28_Witness ==
    /\ pc = "done" /\ alg = "a_star_path"
    /\ Len(path) >= 3
    /\ grid[goal] # None
    /\ \E i \in 2..(Len(path) - 1) : grid[path[i]] # None

\* the anchors that can hold a box of length columns and width rows
Placeable(length, width) == {x \in Cells : FitsAt(x, width, length)}
SquaredDistance(a, b) == (a[1] - b[1]) * (a[1] - b[1]) + (a[2] - b[2]) * (a[2] - b[2])

\* C30 - find_closest_available_location returns None exactly when no
\* anchor can hold the length x width box; otherwise a placeable anchor at
\* the least squared Euclidean distance from the origin, the first in
\* row-major order among those at that distance.
C30_ClosestLocation ==
    (pc = "done" /\ alg = "closest") =>
        LET ok == Placeable(model_size[1], model_size[2])
        IN /\ (slot = NoSlot) <=> (ok = {})
           /\ slot # NoSlot =>
                 /\ slot \in ok
                 /\ \A y \in ok : SquaredDistance(slot, origin) <= SquaredDistance(y, origin)
                 /\ \A y \in ok :
                        SquaredDistance(y, origin) = SquaredDistance(slot, origin) =>
                            ~CellLess(y, slot)
\* two placeable anchors at the same least distance from the origin, for a
\* box that is not square
C30_Witness ==
    /\ pc = "done" /\ alg = "closest"
    /\ slot # NoSlot
    /\ model_size[1] # model_size[2]
    /\ \E y \in Placeable(model_size[1], model_size[2]) :
           /\ y # slot
           /\ SquaredDistance(y, origin) = SquaredDistance(slot, origin)

(***************************************************************************)
(* Properties of the LIFO/FIFO prototype                                   *)
(***************************************************************************)
RECURSIVE StillPresent(_)
StillPresent(ids) ==
    IF ids = <<>> THEN <<>>
    ELSE IF ids[1] \in DOMAIN boxes THEN <<ids[1]>> \o StillPresent(Tail(ids))
         ELSE StillPresent(Tail(ids))

DuplicateFree(ids) == \A i, j \in 1..Len(ids) : ids[i] = ids[j] => i = j

\* C29: after any sequence of place_box and remove_box calls on the
\* prototype rack, box_order has no duplicates and lists exactly the ids of
\* the boxes on the rack in the order they were placed; get_fifo_box is the
\* earliest placed box still present, get_lifo_box the latest, both are None
\* exactly when the rack holds no box; no id is handed out twice.
C29_BoxOrder ==
    LET present == StillPresent(placed)
        on_grid == {grid[x] : x \in DOMAIN grid} \ {None}
    IN /\ DuplicateFree(box_order)
       /\ {box_order[i] : i \in 1..Len(box_order)} = DOMAIN boxes
       /\ DOMAIN box_positions = DOMAIN boxes
       /\ on_grid = DOMAIN boxes
       /\ box_order = present
       /\ get_fifo_box = (IF present = <<>> THEN None ELSE present[1])
       /\ get_lifo_box = (IF present = <<>> THEN None ELSE present[Len(present)])
       /\ (get_fifo_box = None) <=> (DOMAIN boxes = {})
       /\ (get_lifo_box = None) <=> (DOMAIN boxes = {})
       /\ DuplicateFree(placed)
       /\ \A i \in 1..Len(placed) : placed[i] < next_box_id

\* a box placed after an earlier one was removed, two boxes on the rack
C29_Witness ==
    /\ call.op = "place_box" /\ call.ret = "True"
    /\ Len(placed) = 3 /\ Len(box_order) = 2
    /\ get_fifo_box # get_lifo_box
    /\ get_fifo_box # placed[1]

\* the states from which a timeout of animation_timer changes nothing: a
\* leg whose path is empty when the leg is entered
TickIsIdle ==
    /\ operation_mode \in {"storing_moving", "retrieving_moving", "returning"}
    /\ trolley_path = <<>>

\* C26 - Every store or retrieve that starts an animation finishes under
\* fair timer ticks, for every target cell, the trolley's own cell included:
\* as long as is_animating holds the next timeout moves the state machine on
\* (a leg that is entered has a step to take), and an animation that has
\* ended left the window idle with the buttons enabled.
C26_AnimationFinishes ==
    /\ is_animating => ~TickIsIdle
    /\ ~is_animating => (operation_mode = "idle" /\ buttons_enabled)

====
